---- MODULE Spec2Model ----
(***************************************************************************)
(* Model of the 1Diary import parser (src/src/parser.ts, the version with  *)
(* paragraph reflow, lines 366-810).                                       *)
(*                                                                         *)
(* A JavaScript string is a sequence of one-character strings.  The        *)
(* non-ASCII glyphs the parser looks at are written with ASCII stand-ins:  *)
(*     "Y"  U+5E74 (year marker)      "M"  U+6708 (month marker)           *)
(*     "D"  U+65E5 (day marker, also the weekday ideograph "sun")          *)
(*     "m"  U+2F49 (Kangxi variant of the month marker)                    *)
(*     "d"  U+2F47 (Kangxi variant of the day marker)                      *)
(*     "W"  U+5468 (first glyph of a weekday token)                        *)
(*     "L"  U+516D (a weekday ideograph, "six")                            *)
(*     "|"  U+00B7 (middle dot, the metadata separator)                    *)
(*     "c"  U+2103 (one-glyph degree Celsius)   "g"  U+00B0 (degree sign)  *)
(*     "C"  the letter C                                                   *)
(*     "."  the ASCII full stop, ":" the ASCII colon (both are in the      *)
(*          sentence-terminal set), "a" "b" ordinary text glyphs,          *)
(*     " "  a space (stands for all horizontal white space), NL a newline. *)
(***************************************************************************)
EXTENDS Integers, Sequences, FiniteSets, TLC

NL == "\n"

Digits == {"0", "1", "2", "5", "8"}

Alphabet == Digits \cup {"Y", "M", "D", "m", "d", "W", "L", "|", "c", "g", "C",
                         ".", ":", "a", "b", " ", "#", "-", NL}

\* \s of a JavaScript regular expression and the characters trim() strips
WhiteSpace == {" ", NL}

\* . of a JavaScript regular expression: anything but a line terminator
AnyChar == Alphabet \ {NL}

\* the weekday ideographs of DATE_LINE_REGEX (U+4E00 .. U+65E5)
WeekdayChars == {"L", "D"}

\* the weekday ideographs of PDF_METADATA_LINE_REGEX, with the Kangxi variants
PdfWeekdayChars == {"L", "D", "d"}

\* the value of an optional field that is absent (JavaScript undefined)
Undefined == <<"undefined">>

Inf == 99

(***************************************************************************)
(* String helpers: String.prototype.trim, split('\n'), join.               *)
(***************************************************************************)
RECURSIVE TrimStart(_)
TrimStart(s) ==
  IF s # <<>> /\ Head(s) \in WhiteSpace THEN TrimStart(Tail(s)) ELSE s

RECURSIVE TrimEnd(_)
TrimEnd(s) ==
  IF s # <<>> /\ s[Len(s)] \in WhiteSpace
  THEN TrimEnd(SubSeq(s, 1, Len(s) - 1)) ELSE s

Trim(s) == TrimEnd(TrimStart(s))

RECURSIVE JoinWith(_, _)
JoinWith(ss, sep) ==
  IF ss = <<>> THEN <<>>
  ELSE IF Len(ss) = 1 THEN ss[1]
  ELSE ss[1] \o sep \o JoinWith(Tail(ss), sep)

\* the position of the first line break of s from position from on, Len(s) + 1 when none
NextBreak(s, from) ==
  CHOOSE p \in from..(Len(s) + 1) :
    /\ p = Len(s) + 1 \/ s[p] = NL
    /\ \A q \in from..(p - 1) : s[q] # NL

RECURSIVE SplitFrom(_, _)
SplitFrom(s, from) ==
  IF NextBreak(s, from) > Len(s) THEN << SubSeq(s, from, Len(s)) >>
  ELSE << SubSeq(s, from, NextBreak(s, from) - 1) >> \o SplitFrom(s, NextBreak(s, from) + 1)

\* content.split('\n'): always at least one line
SplitLines(s) == SplitFrom(s, 1)

(***************************************************************************)
(* A backtracking matcher for the flat regular expressions of parser.ts.   *)
(* A pattern is a sequence of items, tried in the priority order of a      *)
(* JavaScript regular expression (greedy: longest first, lazy: shortest    *)
(* first, optional group: with the group first).  An optional group is an  *)
(* "opt" item followed by the items of the group; its max is their number. *)
(***************************************************************************)
Item(t, set, min, max, lazy, g) ==
  << [t |-> t, set |-> set, min |-> min, max |-> max, lazy |-> lazy, g |-> g] >>

Ch(set, min, max) == Item("c", set, min, max, FALSE, 0)
Lz(set, min, max) == Item("c", set, min, max, TRUE, 0)
One(c)            == Ch({c}, 1, 1)
Open(g)           == Item("open", {}, 0, 0, FALSE, g)
Close(g)          == Item("close", {}, 0, 0, FALSE, g)
Opt(sub)          == Item("opt", {}, 0, Len(sub), FALSE, 0) \o sub
Eol               == Item("eol", {}, 0, 0, FALSE, 0)

MaxGroups == 7

NoCaps == [g \in 1..MaxGroups |-> <<0, 0>>]

RxFail == [ok |-> FALSE, caps |-> NoCaps, start |-> 0, end |-> 0]

\* number of consecutive characters of s from pos on that are in set, at most max
RunLen(s, pos, set, max) ==
  LET rest == IF pos > Len(s) THEN 0 ELSE Len(s) - pos + 1
      most == IF rest > max THEN max ELSE rest
  IN CHOOSE n \in 0..most :
       /\ n = most \/ s[pos + n] \notin set
       /\ \A q \in pos..(pos + n - 1) : s[q] \in set

RECURSIVE RxM(_, _, _, _, _)
RECURSIVE RxRun(_, _, _, _, _, _)
RECURSIVE RxTry(_, _, _, _, _, _, _, _)

\* match the items from the k-th on against s from position pos on; the first
\* match in priority order
RxM(items, k, s, pos, caps) ==
  CASE k > Len(items) -> [ok |-> TRUE, caps |-> caps, start |-> 0, end |-> pos]
    [] k <= Len(items) /\ items[k].t = "c" ->
         RxRun(items, k, s, pos, caps, RunLen(s, pos, items[k].set, items[k].max))
    [] k <= Len(items) /\ items[k].t = "open" ->
         RxM(items, k + 1, s, pos, [caps EXCEPT ![items[k].g] = <<pos, 0>>])
    [] k <= Len(items) /\ items[k].t = "close" ->
         RxM(items, k + 1, s, pos, [caps EXCEPT ![items[k].g] = <<caps[items[k].g][1], pos>>])
    [] k <= Len(items) /\ items[k].t = "eol" /\ pos = Len(s) + 1 ->
         RxM(items, k + 1, s, pos, caps)
    [] k <= Len(items) /\ items[k].t = "eol" /\ pos # Len(s) + 1 -> RxFail
    [] OTHER ->
         LET r == RxM(items, k + 1, s, pos, caps)
         IN IF r.ok THEN r ELSE RxM(items, k + 1 + items[k].max, s, pos, caps)

\* the k-th item is a repeated character class of which avail characters
\* stand at pos: greedy tries the largest count first, lazy the smallest
RxRun(items, k, s, pos, caps, avail) ==
  CASE avail < items[k].min -> RxFail
    [] avail = items[k].min -> RxM(items, k + 1, s, pos + avail, caps)
    [] avail > items[k].min /\ items[k].lazy ->
         RxTry(items, k, s, pos, caps, items[k].min, avail, 1)
    [] OTHER -> RxTry(items, k, s, pos, caps, avail, items[k].min, -1)

\* try the repetition counts n, n+step, ... up to last for the k-th item
RxTry(items, k, s, pos, caps, n, last, step) ==
  LET r == RxM(items, k + 1, s, pos + n, caps)
  IN IF r.ok THEN r
     ELSE IF n = last THEN RxFail
     ELSE RxTry(items, k, s, pos, caps, n + step, last, step)

\* an unanchored pattern: the leftmost start position that matches
RECURSIVE RxSearchFrom(_, _, _)
RxSearchFrom(items, s, from) ==
  IF from > Len(s) + 1 THEN RxFail
  ELSE LET r == RxM(items, 1, s, from, NoCaps)
       IN IF r.ok THEN [r EXCEPT !.start = from]
          ELSE RxSearchFrom(items, s, from + 1)

RxSearch(items, s) == RxSearchFrom(items, s, 1)

\* a pattern that starts with ^
RxMatch(items, s) ==
  LET r == RxM(items, 1, s, 1, NoCaps) IN IF r.ok THEN [r EXCEPT !.start = 1] ELSE RxFail

\* the text of capture group g, Undefined when the group did not take part
Cap(r, s, g) ==
  IF r.caps[g][1] = 0 THEN Undefined ELSE SubSeq(s, r.caps[g][1], r.caps[g][2] - 1)

(***************************************************************************)
(* The regular expressions of parser.ts.                                   *)
(***************************************************************************)
Ws0 == Ch(WhiteSpace, 0, Inf)

Sep == One("|")

OptSep == Ch({"|"}, 0, 1)

NotSep == Alphabet \ {"|"}

\* /^(\d{4})Y(\d{2})M(\d{2})D\s+(W[weekday])\s*|?\s*([^|]*?)?\s*|?\s*(-?\d+c)?\s*|?\s*(.+)?$/
DATE_LINE_REGEX ==
  Open(1) \o Ch(Digits, 4, 4) \o Close(1) \o One("Y") \o
     Open(2) \o Ch(Digits, 2, 2) \o Close(2) \o One("M") \o
     Open(3) \o Ch(Digits, 2, 2) \o Close(3) \o One("D") \o
     Ch(WhiteSpace, 1, Inf) \o
     Open(4) \o One("W") \o Ch(WeekdayChars, 1, 1) \o Close(4) \o
     Ws0 \o OptSep \o Ws0 \o
     Opt(Open(5) \o Lz(NotSep, 0, Inf) \o Close(5)) \o
     Ws0 \o OptSep \o Ws0 \o
     Opt(Open(6) \o Ch({"-"}, 0, 1) \o Ch(Digits, 1, Inf) \o One("c") \o Close(6)) \o
     Ws0 \o OptSep \o Ws0 \o
     Opt(Open(7) \o Ch(AnyChar, 1, Inf) \o Close(7)) \o
     Eol

\* /(\d+)Y(\d+)[Mm](\d+)[Dd]/
datePattern ==
  Open(1) \o Ch(Digits, 1, Inf) \o Close(1) \o One("Y") \o
     Open(2) \o Ch(Digits, 1, Inf) \o Close(2) \o Ch({"M", "m"}, 1, 1) \o
     Open(3) \o Ch(Digits, 1, Inf) \o Close(3) \o Ch({"D", "d"}, 1, 1)

\* /^\d{4}Y\d{2}M\d{2}D\s*$/
onlyDatePattern ==
  Ch(Digits, 4, 4) \o One("Y") \o Ch(Digits, 2, 2) \o One("M") \o
     Ch(Digits, 2, 2) \o One("D") \o Ws0 \o Eol

\* /^(\d{4})Y(\d{2})M(\d{2})D\s*$/
PDF_DATE_LINE_REGEX ==
  Open(1) \o Ch(Digits, 4, 4) \o Close(1) \o One("Y") \o
     Open(2) \o Ch(Digits, 2, 2) \o Close(2) \o One("M") \o
     Open(3) \o Ch(Digits, 2, 2) \o Close(3) \o One("D") \o Ws0 \o Eol

\* /^#?\s*(\d{4})Y(\d{2})M(\d{2})D\s*$/
PDF_DATE_HEADER_REGEX == Ch({"#"}, 0, 1) \o Ws0 \o PDF_DATE_LINE_REGEX

\* /Y.*[Mm].*[Dd]/
looseDateTest ==
  One("Y") \o Ch(AnyChar, 0, Inf) \o Ch({"M", "m"}, 1, 1) \o
     Ch(AnyChar, 0, Inf) \o Ch({"D", "d"}, 1, 1)

\* /(\d{4})Y(\d{2})[Mm](\d{2})[Dd]/
looseDatePattern ==
  Open(1) \o Ch(Digits, 4, 4) \o Close(1) \o One("Y") \o
     Open(2) \o Ch(Digits, 2, 2) \o Close(2) \o Ch({"M", "m"}, 1, 1) \o
     Open(3) \o Ch(Digits, 2, 2) \o Close(3) \o Ch({"D", "d"}, 1, 1)

\* /^(W[weekday]+)\s*|\s*(\d{2}:\d{2})\s*|\s*([^|]*?)\s*|\s*(?:(?:(-?\d+[gc]C?)\s*|\s*)?(.+))$/
PDF_METADATA_LINE_REGEX ==
  Open(1) \o One("W") \o Ch(PdfWeekdayChars, 1, Inf) \o Close(1) \o
     Ws0 \o Sep \o Ws0 \o
     Open(2) \o Ch(Digits, 2, 2) \o One(":") \o Ch(Digits, 2, 2) \o Close(2) \o
     Ws0 \o Sep \o Ws0 \o
     Open(3) \o Lz(NotSep, 0, Inf) \o Close(3) \o
     Ws0 \o Sep \o Ws0 \o
     Opt(Open(4) \o Ch({"-"}, 0, 1) \o Ch(Digits, 1, Inf) \o Ch({"g", "c"}, 1, 1) \o
         Ch({"C"}, 0, 1) \o Close(4) \o Ws0 \o Sep \o Ws0) \o
     Open(5) \o Ch(AnyChar, 1, Inf) \o Close(5) \o
     Eol

\* /[sentence-terminal punctuation]$/
SentenceEndChars == {".", ":"}

SENTENCE_END_REGEX(s) == s # <<>> /\ s[Len(s)] \in SentenceEndChars

(***************************************************************************)
(* cleanRepeatedChars                                                      *)
(***************************************************************************)
\* /^(\d{w})(\1)+$/ on a digit run
IsRepetition(part, w) ==
  /\ Len(part) >= 2 * w
  /\ Len(part) % w = 0
  /\ \A k \in 1..Len(part) : part[k] = part[((k - 1) % w) + 1]

\* the year / month / day clean-up of one digit run of expected width w
CleanRunDropCopy(part, w) ==
  IF Len(part) > w
  THEN IF IsRepetition(part, w) THEN SubSeq(part, 1, Len(part) - w)
       ELSE SubSeq(part, 1, w)
  ELSE part

CleanRunKeepTail(part, w) ==
  IF Len(part) > w
  THEN IF IsRepetition(part, w) THEN SubSeq(part, 1, w)
       ELSE SubSeq(part, Len(part) - w + 1, Len(part))
  ELSE part

CleanRun(part, w) ==
  IF Len(part) > w
  THEN IF IsRepetition(part, w) THEN SubSeq(part, 1, w)      \* yearMatch[1]
       ELSE SubSeq(part, 1, w)                               \* substring(0, w)
  ELSE part

cleanRepeatedChars(text) ==
  IF \A k \in 1..Len(text) : text[k] \notin {"Y", "M", "D", "m", "d"} THEN text
  ELSE LET match == RxSearch(datePattern, text)
       IN IF match.ok
          THEN LET cleanYear  == CleanRun(Cap(match, text, 1), 4)
                   cleanMonth == CleanRun(Cap(match, text, 2), 2)
                   cleanDay   == CleanRun(Cap(match, text, 3), 2)
                   cleaned    == SubSeq(text, 1, match.start - 1)
                                   \o cleanYear \o <<"Y">> \o cleanMonth \o <<"M">>
                                   \o cleanDay \o <<"D">>
                                   \o SubSeq(text, match.end, Len(text))
                   trimmed    == Trim(cleaned)
               IN IF RxMatch(onlyDatePattern, trimmed).ok THEN trimmed ELSE cleaned
          ELSE text

(***************************************************************************)
(* Paragraph reflow                                                        *)
(***************************************************************************)
isInfoLine(line) ==
  LET t == Trim(line)
  IN \/ RxMatch(PDF_DATE_HEADER_REGEX, t).ok
     \/ RxMatch(PDF_DATE_LINE_REGEX, t).ok
     \/ RxMatch(PDF_METADATA_LINE_REGEX, t).ok

\* lastLine of the last paragraph, null when that paragraph is empty
Null == <<"null">>

LastLineOf(paragraphs) ==
  LET last == paragraphs[Len(paragraphs)]
  IN IF Len(last) > 0 THEN last[Len(last)] ELSE Null

\* the branch of the loop body for a blank line
MergeBlankAlways(paragraphs) ==
  IF LastLineOf(paragraphs) # Null THEN Append(paragraphs, <<>>) ELSE paragraphs

MergeBlank(paragraphs) ==
  LET lastLine    == LastLineOf(paragraphs)
      shouldBreak == lastLine # Null /\ ~isInfoLine(lastLine) /\ SENTENCE_END_REGEX(lastLine)
  IN IF shouldBreak THEN Append(paragraphs, <<>>) ELSE paragraphs

\* the info line is pushed and the paragraph that holds it is left open
MergeInfoStaysOpen(paragraphs, trimmed) ==
  LET p1 == IF Len(paragraphs[Len(paragraphs)]) > 0 THEN Append(paragraphs, <<>>) ELSE paragraphs
  IN [p1 EXCEPT ![Len(p1)] = Append(@, trimmed)]

\* the branch of the loop body for an info line
MergeInfo(paragraphs, trimmed) ==
  LET p1 == IF Len(paragraphs[Len(paragraphs)]) > 0 THEN Append(paragraphs, <<>>) ELSE paragraphs
      p2 == [p1 EXCEPT ![Len(p1)] = Append(@, trimmed)]
  IN Append(p2, <<>>)

\* the branch of the loop body for a normal line
MergeNormalOverwrite(paragraphs, trimmed) ==
  LET lastLine == LastLineOf(paragraphs)
      n        == Len(paragraphs)
  IN IF lastLine # Null /\ ~isInfoLine(lastLine) /\ ~SENTENCE_END_REGEX(lastLine)
     THEN [paragraphs EXCEPT ![n] = [@ EXCEPT ![Len(@)] = trimmed]]
     ELSE [paragraphs EXCEPT ![n] = Append(@, trimmed)]

MergeNormalSpace(paragraphs, trimmed) ==
  LET lastLine == LastLineOf(paragraphs)
      n        == Len(paragraphs)
  IN IF lastLine # Null /\ ~isInfoLine(lastLine) /\ ~SENTENCE_END_REGEX(lastLine)
     THEN [paragraphs EXCEPT ![n] = [@ EXCEPT ![Len(@)] = lastLine \o <<" ">> \o trimmed]]
     ELSE [paragraphs EXCEPT ![n] = Append(@, trimmed)]

MergeNormal(paragraphs, trimmed) ==
  LET lastLine == LastLineOf(paragraphs)
      n        == Len(paragraphs)
  IN IF lastLine # Null /\ ~isInfoLine(lastLine) /\ ~SENTENCE_END_REGEX(lastLine)
     THEN [paragraphs EXCEPT ![n] = [@ EXCEPT ![Len(@)] = lastLine \o trimmed]]
     ELSE [paragraphs EXCEPT ![n] = Append(@, trimmed)]

\* one iteration of the loop of mergeContentLinesToParagraphs
MergeStep(paragraphs, line) ==
  LET trimmed == Trim(line)
  IN IF trimmed = <<>> THEN MergeBlank(paragraphs)
     ELSE IF isInfoLine(line) THEN MergeInfo(paragraphs, trimmed)
     ELSE MergeNormal(paragraphs, trimmed)

RECURSIVE MergeLoop(_, _)
MergeLoop(paragraphs, contentLines) ==
  IF contentLines = <<>> THEN paragraphs
  ELSE MergeLoop(MergeStep(paragraphs, Head(contentLines)), Tail(contentLines))

\* paragraphs.map(p => p.join('\n')).filter(s => s.length > 0).join('\n\n')
MergeJoin(paragraphs) ==
  LET joined == [k \in 1..Len(paragraphs) |-> JoinWith(paragraphs[k], <<NL>>)]
  IN JoinWith(SelectSeq(joined, LAMBDA x : Len(x) > 0), <<NL, NL>>)

mergeContentLinesToParagraphs(contentLines) ==
  IF Len(contentLines) = 0 THEN <<>>
  ELSE MergeJoin(MergeLoop(<< <<>> >>, contentLines))

(***************************************************************************)
(* State of one call of parseTxtDiary / parsePdfDiary.                     *)
(***************************************************************************)
VARIABLES
  parser,             \* "txt": parseTxtDiary, "pdf": parsePdfDiary
  content,            \* the argument
  lines,              \* content.split('\n')
  i,                  \* loop index (0-based)
  currentEntry,       \* the entry being accumulated, NoEntry for null
  currentStartLine,
  contentLines,
  expectingMetadata,
  dateHeaderCount,
  metadataCount,
  entries,
  errors,
  entryLineRanges,
  pc,                 \* "start", "loop", "done"; "idle" when no parse runs
  returned            \* what the earlier calls returned, in the order of the calls

\* one call of mergeContentLinesToParagraphs, a loop iteration per step
VARIABLES
  mLines,             \* the argument contentLines
  mIdx,               \* number of lines already consumed by the loop
  paragraphs,
  mResult,            \* the returned string, Null before the return
  mpc                 \* "loop", "done"; "idle" when no call runs

\* cleanRepeatedChars applied to a line, to its own result, and the header test on the result
VARIABLES
  cText,
  cOnce,
  cTwice,
  cMatch,
  cpc                 \* "start", "once", "twice", "done"; "idle" when unused

parseVars == << parser, content, lines, i, currentEntry, currentStartLine, contentLines,
                expectingMetadata, dateHeaderCount, metadataCount, entries, errors,
                entryLineRanges, pc, returned >>

mergeVars == << mLines, mIdx, paragraphs, mResult, mpc >>

cleanVars == << cText, cOnce, cTwice, cMatch, cpc >>

\* one call of diaryToMarkdown
VARIABLES
  mdEntry,            \* the argument entry
  mdAddTitle,         \* the argument addTitle
  mdResult,           \* the returned string, Null before the return
  mdpc                \* "call", "done"; "idle" when no call runs

mdVars == << mdEntry, mdAddTitle, mdResult, mdpc >>

\* the plugin, the vault and one call of importEntries / importEntriesWithImages
VARIABLES
  settings,           \* this.settings
  vault,              \* the files of the vault: path -> text (or image data)
  folders,            \* the folders of the vault
  imKind,             \* "entries": importEntries, "images": importEntriesWithImages
  imEntries,          \* the argument entries
  imPageImages,       \* the argument pageImages: page number -> images
  imPageToDate,       \* the argument pageToDate: page number -> date
  imIdx,              \* number of entries the loop has handled
  imResult,           \* result
  imported,           \* the entries written so far by all calls, in order
  impc                \* "ready", "images", "entries"; "idle" when unused

importVars == << settings, vault, folders, imKind, imEntries, imPageImages, imPageToDate,
                 imIdx, imResult, imported, impc >>

\* one ImportPdfModal
VARIABLES
  pdfDocument,        \* the pages of the chosen file: their lines and images
  pageNum,            \* the page loop of handleFile
  pageTexts,          \* this.pageTexts
  pageImages,         \* this.pageImages: page number -> images
  pdfText,            \* this.pdfText, Null at first
  thisEntries,        \* this.entries
  entryPageRanges,    \* this.entryPageRanges
  lineToPage,         \* the line -> page table of handleFile
  notice,             \* the Notice shown last
  hpc,                \* "idle", "pages", "parsing", "ready", "importing", "closed"
  second,             \* a second call of handleFile: its pdfDocument, pageNum and hpc
  failed              \* number of clicks on the import button that ended with an error

modalVars == << pdfDocument, pageNum, pageTexts, pageImages, pdfText, thisEntries,
                entryPageRanges, lineToPage, notice, hpc, second, failed >>

appVars == << mdVars, importVars, modalVars >>

vars == << parseVars, mergeVars, cleanVars, appVars >>

NoEntry == [date |-> Null, weekday |-> Null, time |-> Null, weather |-> Null,
            temperature |-> Null, location |-> Null, content |-> Null]

\* x || undefined
OrUndefined(x) == IF x = Undefined \/ x = <<>> THEN Undefined ELSE x

\* x?.trim() || undefined
TrimOrUndefined(x) == IF x = Undefined THEN Undefined ELSE OrUndefined(Trim(x))

\* `${year}-${month}-${day}`
DateOf(year, month, day) == year \o <<"-">> \o month \o <<"-">> \o day

\* temperature.replace('c', 'gC'): the first occurrence only
RECURSIVE ReplaceFirstCelsius(_)
ReplaceFirstCelsius(t) ==
  IF t = <<>> THEN <<>>
  ELSE IF Head(t) = "c" THEN <<"g", "C">> \o Tail(t)
  ELSE <<Head(t)>> \o ReplaceFirstCelsius(Tail(t))

\* temperature.replace(/c/g, 'gC').replace(/gC/g, 'gC')
RECURSIVE ReplaceAllCelsius(_)
ReplaceAllCelsius(t) ==
  IF t = <<>> THEN <<>>
  ELSE IF Head(t) = "c" THEN <<"g", "C">> \o ReplaceAllCelsius(Tail(t))
  ELSE <<Head(t)>> \o ReplaceAllCelsius(Tail(t))

\* the Kangxi weekday glyphs replaced by the common ideographs
NormalizeWeekday(w) == [k \in 1..Len(w) |-> IF w[k] = "d" THEN "D" ELSE w[k]]

\* the entry parseTxtDiary opens from a DATE_LINE_REGEX match
TxtEntry(match, line) ==
  [date        |-> DateOf(Cap(match, line, 1), Cap(match, line, 2), Cap(match, line, 3)),
   weekday     |-> Cap(match, line, 4),
   time        |-> Undefined,
   weather     |-> TrimOrUndefined(Cap(match, line, 5)),
   temperature |-> IF Cap(match, line, 6) = Undefined THEN Undefined
                   ELSE OrUndefined(ReplaceFirstCelsius(Cap(match, line, 6))),
   location    |-> TrimOrUndefined(Cap(match, line, 7)),
   content     |-> <<>>]

\* the date-header test without the loose pattern
PdfDateMatchStrictOnly(line) ==
  LET m1 == RxMatch(PDF_DATE_HEADER_REGEX, line)
      m2 == RxMatch(PDF_DATE_LINE_REGEX, line)
      trimmedLine == Trim(line)
      m3 == RxMatch(PDF_DATE_HEADER_REGEX, trimmedLine)
      m4 == RxMatch(PDF_DATE_LINE_REGEX, trimmedLine)
      D(m, str) == [ok |-> TRUE, date |-> DateOf(Cap(m, str, 1), Cap(m, str, 2), Cap(m, str, 3))]
  IN IF m1.ok THEN D(m1, line)
     ELSE IF m2.ok THEN D(m2, line)
     ELSE IF m3.ok THEN D(m3, trimmedLine)
     ELSE IF m4.ok THEN D(m4, trimmedLine)
     ELSE [ok |-> FALSE, date |-> Undefined]

\* the date-header test of parsePdfDiary on the repaired line: the strict
\* patterns, the same on the trimmed line, then the loose pattern
PdfDateMatch(line) ==
  LET m1 == RxMatch(PDF_DATE_HEADER_REGEX, line)
      m2 == RxMatch(PDF_DATE_LINE_REGEX, line)
      trimmedLine == Trim(line)
      m3 == RxMatch(PDF_DATE_HEADER_REGEX, trimmedLine)
      m4 == RxMatch(PDF_DATE_LINE_REGEX, trimmedLine)
      m5 == IF RxSearch(looseDateTest, line).ok THEN RxSearch(looseDatePattern, line) ELSE RxFail
      D(m, str) == [ok |-> TRUE, date |-> DateOf(Cap(m, str, 1), Cap(m, str, 2), Cap(m, str, 3))]
  IN IF m1.ok THEN D(m1, line)
     ELSE IF m2.ok THEN D(m2, line)
     ELSE IF m3.ok THEN D(m3, trimmedLine)
     ELSE IF m4.ok THEN D(m4, trimmedLine)
     ELSE IF m5.ok THEN D(m5, line)
     ELSE [ok |-> FALSE, date |-> Undefined]

\* the fields parsePdfDiary fills from a PDF_METADATA_LINE_REGEX match
WithMetadata(entry, match, line) ==
  [entry EXCEPT
     !.weekday     = NormalizeWeekday(Cap(match, line, 1)),
     !.time        = OrUndefined(Cap(match, line, 2)),
     !.weather     = TrimOrUndefined(Cap(match, line, 3)),
     !.temperature = IF Cap(match, line, 4) = Undefined THEN Undefined
                     ELSE OrUndefined(ReplaceAllCelsius(Cap(match, line, 4))),
     !.location    = TrimOrUndefined(Cap(match, line, 5))]

(***************************************************************************)
(* Inputs.                                                                 *)
(***************************************************************************)
MaxPdfLines == 4

MaxTxtLines == 5

Year  == <<"2", "0", "2", "5">>
Month == <<"0", "2">>
Day8  == <<"0", "8">>
Day10 == <<"1", "0">>

HeaderLine    == Year \o <<"Y">> \o Month \o <<"M">> \o Day8 \o <<"D">>
HeaderLine10  == Year \o <<"Y">> \o Month \o <<"M">> \o Day10 \o <<"D">>
CorruptHeader == Year \o Year \o <<"Y">> \o Month \o Month \o <<"m">> \o Day8 \o Day8 \o <<"d">>
MetadataLine  == <<"W", "L", "|", "2", "1", ":", "5", "5", "|", "a", "|", "5", "g", "C", "|", "b">>
BlankLine     == <<>>
OpenLine      == <<"a", "b">>
ClosedLine    == <<"b", ".">>
PaddedLine    == <<" ", "a">>

\* a date line of the plain-text export, 'YYYY-MM-DD W6 . weather . temperature . location'
\* with " | " between the groups; an omitted group is Undefined
RECURSIVE DotJoin(_)
DotJoin(groups) ==
  IF groups = <<>> THEN <<>>
  ELSE (IF Head(groups) = Undefined THEN <<>> ELSE <<" ", "|", " ">> \o Head(groups))
       \o DotJoin(Tail(groups))

MkDateLine(f) ==
  Year \o <<"Y">> \o Month \o <<"M">> \o Day10 \o <<"D", " ", "W", "L">>
  \o DotJoin(<< f.weather, IF f.temperature = Undefined THEN Undefined
                           ELSE f.temperature \o <<"c">>, f.location >>)

\* the optional groups of the date lines fed to parseTxtDiary
DateLineFields ==
  { [weather |-> <<"a">>, temperature |-> <<"5">>, location |-> <<"b">>],
    [weather |-> <<"a">>, temperature |-> Undefined, location |-> <<"b">>] }

TxtDateLine == MkDateLine([weather |-> <<"a">>, temperature |-> <<"5">>, location |-> <<"b">>])

PdfLinePool == { BlankLine, HeaderLine, CorruptHeader, MetadataLine, OpenLine, ClosedLine }

TxtLinePool == { BlankLine, OpenLine, PaddedLine } \cup { MkDateLine(f) : f \in DateLineFields }

Inputs(pool, lo, hi) ==
  UNION { { [k \in 1..n |-> f[k]] : f \in [1..n -> pool] } : n \in lo..hi }

IdleParse ==
  /\ parser = "none" /\ content = <<>> /\ lines = <<>> /\ i = 0
  /\ currentEntry = NoEntry /\ currentStartLine = 0 /\ contentLines = <<>>
  /\ expectingMetadata = FALSE /\ dateHeaderCount = 0 /\ metadataCount = 0
  /\ entries = <<>> /\ errors = <<>> /\ entryLineRanges = <<>> /\ pc = "idle"
  /\ returned = <<>>

IdleMerge ==
  mLines = <<>> /\ mIdx = 0 /\ paragraphs = <<>> /\ mResult = Null /\ mpc = "idle"

IdleClean ==
  cText = <<>> /\ cOnce = Null /\ cTwice = Null /\ cMatch = [ok |-> FALSE, date |-> Undefined]
  /\ cpc = "idle"

IdleMarkdown ==
  mdEntry = NoEntry /\ mdAddTitle = FALSE /\ mdResult = Null /\ mdpc = "idle"

\* DEFAULT_SETTINGS
outputFolder == <<"J">>

dateFormat == <<"Y", "Y", "Y", "Y", "-", "M", "M", "-", "D", "D">>

attachmentFolder ==
  <<"a", "t", "t", "a", "c", "h", "m", "e", "n", "t", "s", "/", "d", "i", "a", "r", "y">>

DEFAULT_SETTINGS ==
  [outputFolder |-> outputFolder, dateFormat |-> dateFormat, groupByYear |-> TRUE,
   importAttachments |-> TRUE, attachmentFolder |-> attachmentFolder, addTitle |-> TRUE,
   lastImportTime |-> 0]

\* a Map without entries
EmptyMap == [k \in {} |-> <<>>]

NoResult == [success |-> 0, skipped |-> 0, errors |-> <<>>, imagesImported |-> 0]

IdleImport ==
  /\ settings = DEFAULT_SETTINGS /\ vault = EmptyMap /\ folders = {}
  /\ imKind = "none" /\ imEntries = <<>> /\ imPageImages = EmptyMap /\ imPageToDate = EmptyMap
  /\ imIdx = 0 /\ imResult = NoResult /\ imported = <<>> /\ impc = "idle"

\* no second call of handleFile
NoSecond == [pdfDocument |-> <<>>, pageNum |-> 0, hpc |-> "idle"]

\* the modal as its constructor leaves it
IdleModal ==
  /\ pdfDocument = <<>> /\ pageNum = 0 /\ pageTexts = <<>> /\ pageImages = EmptyMap
  /\ pdfText = Null /\ thisEntries = <<>> /\ entryPageRanges = <<>> /\ lineToPage = <<>>
  /\ notice = "none" /\ hpc = "idle"
  /\ second = NoSecond /\ failed = 0

IdleApp == IdleMarkdown /\ IdleImport /\ IdleModal

(***************************************************************************)
(* parseTxtDiary and parsePdfDiary, one loop iteration per step.           *)
(***************************************************************************)
Init ==
  /\ \/ /\ parser = "txt"
        /\ content \in { JoinWith(ls, <<NL>>) : ls \in Inputs(TxtLinePool, 1, MaxTxtLines) }
     \/ /\ parser = "pdf"
        /\ content \in { JoinWith(ls, <<NL>>) : ls \in Inputs(PdfLinePool, 1, MaxPdfLines) }
  /\ lines = <<>> /\ i = 0
  /\ currentEntry = NoEntry /\ currentStartLine = 0 /\ contentLines = <<>>
  /\ expectingMetadata = FALSE /\ dateHeaderCount = 0 /\ metadataCount = 0
  /\ entries = <<>> /\ errors = <<>> /\ entryLineRanges = <<>>
  /\ pc = "start" /\ returned = <<>>
  /\ IdleMerge /\ IdleClean /\ IdleApp

\* const lines = content.split('\n')
Split ==
  /\ pc = "start"
  /\ lines' = SplitLines(content)
  /\ pc' = "loop"
  /\ UNCHANGED << parser, content, i, currentEntry, currentStartLine, contentLines,
                  expectingMetadata, dateHeaderCount, metadataCount, entries, errors,
                  entryLineRanges, mergeVars, cleanVars, appVars, returned >>

InLoop(p) == pc = "loop" /\ parser = p /\ i < Len(lines)

\* contentLines.join('\n').trim()
TxtContentNoTrim(body) == JoinWith(body, <<NL>>)

TxtContent(body) == Trim(JoinWith(body, <<NL>>))

\* mergeContentLinesToParagraphs(contentLines).trim()
PdfContent(body) == Trim(mergeContentLinesToParagraphs(body))

\* if (currentEntry) { ...; if (currentEntry.content) entries.push(currentEntry) }
FlushEntriesAlways(es, entry) ==
  IF entry # NoEntry THEN Append(es, entry) ELSE es

FlushEntries(es, entry) ==
  IF entry # NoEntry /\ entry.content # <<>> THEN Append(es, entry) ELSE es

\* if (currentEntry) { ...; if (currentEntry.content) entryLineRanges.push({startLine, endLine}) }
FlushRangesAlways(rs, entry, startLine, endLine) ==
  IF entry # NoEntry
  THEN Append(rs, [startLine |-> startLine, endLine |-> endLine]) ELSE rs

FlushRangesEndExclusive(rs, entry, startLine, endLine) ==
  IF entry # NoEntry /\ entry.content # <<>>
  THEN Append(rs, [startLine |-> startLine, endLine |-> endLine + 1]) ELSE rs

FlushRanges(rs, entry, startLine, endLine) ==
  IF entry # NoEntry /\ entry.content # <<>>
  THEN Append(rs, [startLine |-> startLine, endLine |-> endLine]) ELSE rs

\* parseTxtDiary: the line matches DATE_LINE_REGEX
TxtDateLineStep ==
  /\ InLoop("txt")
  /\ LET line  == lines[i + 1]
         match == RxMatch(DATE_LINE_REGEX, line)
         flushed == IF currentEntry # NoEntry
                    THEN [currentEntry EXCEPT !.content = TxtContent(contentLines)]
                    ELSE NoEntry
     IN /\ match.ok
        /\ entries' = FlushEntries(entries, flushed)
        /\ currentEntry' = TxtEntry(match, line)
        /\ contentLines' = <<>>
  /\ i' = i + 1
  /\ UNCHANGED << parser, content, lines, currentStartLine, expectingMetadata,
                  dateHeaderCount, metadataCount, errors, entryLineRanges, pc,
                  mergeVars, cleanVars, appVars, returned >>

\* the body line is pushed without its leading and trailing white space
TxtBodyStepTrimsLine ==
  /\ InLoop("txt")
  /\ LET line == lines[i + 1]
     IN /\ ~RxMatch(DATE_LINE_REGEX, line).ok
        /\ contentLines' = IF currentEntry # NoEntry THEN Append(contentLines, Trim(line))
                           ELSE contentLines
  /\ i' = i + 1
  /\ UNCHANGED << parser, content, lines, currentEntry, currentStartLine, expectingMetadata,
                  dateHeaderCount, metadataCount, entries, errors, entryLineRanges, pc,
                  mergeVars, cleanVars, appVars, returned >>

\* parseTxtDiary: any other line
TxtBodyStep ==
  /\ InLoop("txt")
  /\ LET line == lines[i + 1]
     IN /\ ~RxMatch(DATE_LINE_REGEX, line).ok
        /\ contentLines' = IF currentEntry # NoEntry THEN Append(contentLines, line)
                           ELSE contentLines
  /\ i' = i + 1
  /\ UNCHANGED << parser, content, lines, currentEntry, currentStartLine, expectingMetadata,
                  dateHeaderCount, metadataCount, entries, errors, entryLineRanges, pc,
                  mergeVars, cleanVars, appVars, returned >>

\* parseTxtDiary: after the loop
TxtFinish ==
  /\ pc = "loop" /\ parser = "txt" /\ i = Len(lines)
  /\ LET flushed == IF currentEntry # NoEntry
                    THEN [currentEntry EXCEPT !.content = TxtContent(contentLines)]
                    ELSE NoEntry
     IN /\ entries' = FlushEntries(entries, flushed)
        /\ currentEntry' = flushed
  /\ pc' = "done"
  /\ UNCHANGED << parser, content, lines, i, currentStartLine, contentLines,
                  expectingMetadata, dateHeaderCount, metadataCount, errors,
                  entryLineRanges, mergeVars, cleanVars, appVars, returned >>

\* the line parsePdfDiary works on: lines[i] after cleanRepeatedChars
PdfLine == cleanRepeatedChars(lines[i + 1])

\* parsePdfDiary: the line is a date header
PdfDateHeaderStep ==
  /\ InLoop("pdf")
  /\ LET dateMatch == PdfDateMatch(PdfLine)
         flushed   == IF currentEntry # NoEntry
                      THEN [currentEntry EXCEPT !.content = PdfContent(contentLines)]
                      ELSE NoEntry
     IN /\ dateMatch.ok
        /\ entries' = FlushEntries(entries, flushed)
        /\ entryLineRanges' = FlushRanges(entryLineRanges, flushed, currentStartLine, i - 1)
        /\ currentEntry' = [date |-> dateMatch.date, weekday |-> <<>>, time |-> Undefined,
                            weather |-> Undefined, temperature |-> Undefined,
                            location |-> Undefined, content |-> <<>>]
  /\ dateHeaderCount' = dateHeaderCount + 1
  /\ currentStartLine' = i
  /\ contentLines' = <<>>
  /\ expectingMetadata' = TRUE
  /\ i' = i + 1
  /\ UNCHANGED << parser, content, lines, metadataCount, errors, pc,
                  mergeVars, cleanVars, appVars, returned >>

\* the metadata line is consumed and kept as a body line as well
PdfMetadataStepKeepsLine ==
  /\ InLoop("pdf")
  /\ expectingMetadata /\ currentEntry # NoEntry
  /\ ~PdfDateMatch(PdfLine).ok
  /\ LET metadataMatch == RxMatch(PDF_METADATA_LINE_REGEX, PdfLine)
     IN /\ metadataMatch.ok
        /\ currentEntry' = WithMetadata(currentEntry, metadataMatch, PdfLine)
  /\ metadataCount' = metadataCount + 1
  /\ expectingMetadata' = FALSE
  /\ contentLines' = Append(contentLines, PdfLine)
  /\ i' = i + 1
  /\ UNCHANGED << parser, content, lines, currentStartLine, dateHeaderCount,
                  entries, errors, entryLineRanges, pc, mergeVars, cleanVars, appVars, returned >>

\* parsePdfDiary: the line after a date header is a metadata line
PdfMetadataStep ==
  /\ InLoop("pdf")
  /\ expectingMetadata /\ currentEntry # NoEntry
  /\ ~PdfDateMatch(PdfLine).ok
  /\ LET metadataMatch == RxMatch(PDF_METADATA_LINE_REGEX, PdfLine)
     IN /\ metadataMatch.ok
        /\ currentEntry' = WithMetadata(currentEntry, metadataMatch, PdfLine)
  /\ metadataCount' = metadataCount + 1
  /\ expectingMetadata' = FALSE
  /\ i' = i + 1
  /\ UNCHANGED << parser, content, lines, currentStartLine, contentLines, dateHeaderCount,
                  entries, errors, entryLineRanges, pc, mergeVars, cleanVars, appVars, returned >>

\* the diagnostic of a missing metadata line
Diagnostic(date, line) == [date |-> date, line |-> line]

\* if (line.trim()) errors.push(errorMsg)
MissingMetadataAlways(errs, entry, line) ==
  Append(errs, Diagnostic(entry.date, line))

MissingMetadataInverted(errs, entry, line) ==
  IF Trim(line) = <<>> THEN Append(errs, Diagnostic(entry.date, line)) ELSE errs

MissingMetadata(errs, entry, line) ==
  IF Trim(line) # <<>> THEN Append(errs, Diagnostic(entry.date, line)) ELSE errs

\* a blank line after the date header leaves the expectation standing
PdfNoMetadataStepKeepsExpecting ==
  /\ InLoop("pdf")
  /\ expectingMetadata /\ currentEntry # NoEntry
  /\ ~PdfDateMatch(PdfLine).ok
  /\ ~RxMatch(PDF_METADATA_LINE_REGEX, PdfLine).ok
  /\ errors' = MissingMetadata(errors, currentEntry, PdfLine)
  /\ expectingMetadata' = (Trim(PdfLine) = <<>>)
  /\ contentLines' = IF Trim(PdfLine) = <<>> THEN contentLines
                     ELSE Append(contentLines, PdfLine)
  /\ i' = i + 1
  /\ UNCHANGED << parser, content, lines, currentEntry, currentStartLine, dateHeaderCount,
                  metadataCount, entries, entryLineRanges, pc,
                  mergeVars, cleanVars, appVars, returned >>

\* parsePdfDiary: the line after a date header is not a metadata line
PdfNoMetadataStep ==
  /\ InLoop("pdf")
  /\ expectingMetadata /\ currentEntry # NoEntry
  /\ ~PdfDateMatch(PdfLine).ok
  /\ ~RxMatch(PDF_METADATA_LINE_REGEX, PdfLine).ok
  /\ errors' = MissingMetadata(errors, currentEntry, PdfLine)
  /\ expectingMetadata' = FALSE
  /\ contentLines' = Append(contentLines, PdfLine)
  /\ i' = i + 1
  /\ UNCHANGED << parser, content, lines, currentEntry, currentStartLine, dateHeaderCount,
                  metadataCount, entries, entryLineRanges, pc,
                  mergeVars, cleanVars, appVars, returned >>

\* the body line is taken as it stands in the text, without the repair
PdfBodyStepRawLine ==
  /\ InLoop("pdf")
  /\ ~(expectingMetadata /\ currentEntry # NoEntry)
  /\ ~PdfDateMatch(PdfLine).ok
  /\ contentLines' = IF currentEntry # NoEntry /\ ~expectingMetadata
                     THEN Append(contentLines, lines[i + 1]) ELSE contentLines
  /\ i' = i + 1
  /\ UNCHANGED << parser, content, lines, currentEntry, currentStartLine, expectingMetadata,
                  dateHeaderCount, metadataCount, entries, errors, entryLineRanges, pc,
                  mergeVars, cleanVars, appVars, returned >>

\* the body line is taken and the line after it passed over
PdfBodyStepSkipsLine ==
  /\ InLoop("pdf")
  /\ ~(expectingMetadata /\ currentEntry # NoEntry)
  /\ ~PdfDateMatch(PdfLine).ok
  /\ contentLines' = IF currentEntry # NoEntry /\ ~expectingMetadata
                     THEN Append(contentLines, PdfLine) ELSE contentLines
  /\ i' = IF i + 2 <= Len(lines) THEN i + 2 ELSE i + 1
  /\ UNCHANGED << parser, content, lines, currentEntry, currentStartLine, expectingMetadata,
                  dateHeaderCount, metadataCount, entries, errors, entryLineRanges, pc,
                  mergeVars, cleanVars, appVars, returned >>

\* parsePdfDiary: any other line
PdfBodyStep ==
  /\ InLoop("pdf")
  /\ ~(expectingMetadata /\ currentEntry # NoEntry)
  /\ ~PdfDateMatch(PdfLine).ok
  /\ contentLines' = IF currentEntry # NoEntry /\ ~expectingMetadata
                     THEN Append(contentLines, PdfLine) ELSE contentLines
  /\ i' = i + 1
  /\ UNCHANGED << parser, content, lines, currentEntry, currentStartLine, expectingMetadata,
                  dateHeaderCount, metadataCount, entries, errors, entryLineRanges, pc,
                  mergeVars, cleanVars, appVars, returned >>

\* parsePdfDiary: after the loop
PdfFinish ==
  /\ pc = "loop" /\ parser = "pdf" /\ i = Len(lines)
  /\ LET flushed == IF currentEntry # NoEntry
                    THEN [currentEntry EXCEPT !.content = PdfContent(contentLines)]
                    ELSE NoEntry
     IN /\ entries' = FlushEntries(entries, flushed)
        /\ entryLineRanges' =
             FlushRanges(entryLineRanges, flushed, currentStartLine, Len(lines) - 1)
        /\ currentEntry' = flushed
  /\ pc' = "done"
  /\ UNCHANGED << parser, content, lines, i, currentStartLine, contentLines,
                  expectingMetadata, dateHeaderCount, metadataCount, errors,
                  mergeVars, cleanVars, appVars, returned >>

Next ==
  \/ Split
  \/ TxtDateLineStep \/ TxtBodyStep \/ TxtFinish
  \/ PdfDateHeaderStep \/ PdfMetadataStep \/ PdfNoMetadataStep \/ PdfBodyStep \/ PdfFinish

Spec == Init /\ [][Next]_vars

(***************************************************************************)
(* The parsers run to their end: a call is one synchronous loop that       *)
(* nothing interrupts, so the step that is due is taken: the fairness is   *)
(* on the control of the loop, whose steps the actions of Next are.  The   *)
(* inputs hold date tokens that no pattern matches (month and day of one   *)
(* digit).                                                                 *)
(***************************************************************************)
MaxLiveLines == 3

BadDateLine == Year \o <<"Y", "2", "M", "8", "D">>

TxtBadDateLine == BadDateLine \o <<" ", "W", "L", " ", "|", " ", "a">>

LivePdfPool == { BlankLine, HeaderLine, BadDateLine, MetadataLine, ClosedLine }

LiveTxtPool == { BlankLine, TxtDateLine, TxtBadDateLine, ClosedLine }

LiveInit ==
  /\ \/ /\ parser = "txt"
        /\ content \in { JoinWith(ls, <<NL>>) : ls \in Inputs(LiveTxtPool, 1, MaxLiveLines) }
     \/ /\ parser = "pdf"
        /\ content \in { JoinWith(ls, <<NL>>) : ls \in Inputs(LivePdfPool, 1, MaxLiveLines) }
  /\ lines = <<>> /\ i = 0
  /\ currentEntry = NoEntry /\ currentStartLine = 0 /\ contentLines = <<>>
  /\ expectingMetadata = FALSE /\ dateHeaderCount = 0 /\ metadataCount = 0
  /\ entries = <<>> /\ errors = <<>> /\ entryLineRanges = <<>>
  /\ pc = "start" /\ returned = <<>>
  /\ IdleMerge /\ IdleClean /\ IdleApp

\* the control of one call: split, one iteration per line, return
Advance ==
  \/ pc = "start" /\ pc' = "loop" /\ i' = i
  \/ pc = "loop" /\ i < Len(lines) /\ i' = i + 1 /\ pc' = pc
  \/ pc = "loop" /\ i = Len(lines) /\ pc' = "done" /\ i' = i

SpecLive == LiveInit /\ [][Next]_vars /\ WF_<<pc, i>>(Advance)

(***************************************************************************)
(* Several calls of the parsers, one after the other (the functions are    *)
(* synchronous: a call runs to its end before the next one starts).  A     *)
(* call begins with fresh locals (parser.ts 537-544, 602-614); the regular *)
(* expressions of the module carry no g or y flag, so that a match neither *)
(* reads nor writes their lastIndex.                                       *)
(***************************************************************************)
MaxCalls == 3

\* the texts the calls are given
CallTexts(p) ==
  IF p = "pdf"
  THEN { JoinWith(ls, <<NL>>) : ls \in { << HeaderLine, MetadataLine, ClosedLine >>,
                                          << ClosedLine, HeaderLine, OpenLine >>,
                                          << HeaderLine, OpenLine >> } }
  ELSE { JoinWith(ls, <<NL>>) : ls \in { << TxtDateLine, ClosedLine >>,
                                          << OpenLine, TxtDateLine, ClosedLine >> } }

\* the ParseResult a finished call returns, with the call it answers
Returns ==
  [parser |-> parser, content |-> content,
   entries |-> entries, errors |-> errors, entryLineRanges |-> entryLineRanges]

CallsInit ==
  /\ parser \in {"txt", "pdf"}
  /\ content \in CallTexts(parser)
  /\ lines = <<>> /\ i = 0
  /\ currentEntry = NoEntry /\ currentStartLine = 0 /\ contentLines = <<>>
  /\ expectingMetadata = FALSE /\ dateHeaderCount = 0 /\ metadataCount = 0
  /\ entries = <<>> /\ errors = <<>> /\ entryLineRanges = <<>>
  /\ pc = "start" /\ returned = <<>>
  /\ IdleMerge /\ IdleClean /\ IdleApp

\* the next call keeps the entry the last call was accumulating
ParseCallKeepsEntry ==
  /\ pc = "done" /\ Len(returned) < MaxCalls - 1
  /\ returned' = Append(returned, Returns)
  /\ \E p \in {"txt", "pdf"} : parser' = p /\ content' \in CallTexts(p)
  /\ lines' = <<>> /\ i' = 0
  /\ currentEntry' = currentEntry /\ currentStartLine' = 0 /\ contentLines' = contentLines
  /\ expectingMetadata' = FALSE /\ dateHeaderCount' = 0 /\ metadataCount' = 0
  /\ entries' = <<>> /\ errors' = <<>> /\ entryLineRanges' = <<>>
  /\ pc' = "start"
  /\ UNCHANGED << mergeVars, cleanVars, appVars >>

\* the last call has returned and a parser is called again
ParseCall ==
  /\ pc = "done" /\ Len(returned) < MaxCalls - 1
  /\ returned' = Append(returned, Returns)
  /\ \E p \in {"txt", "pdf"} : parser' = p /\ content' \in CallTexts(p)
  /\ lines' = <<>> /\ i' = 0
  /\ currentEntry' = NoEntry /\ currentStartLine' = 0 /\ contentLines' = <<>>
  /\ expectingMetadata' = FALSE /\ dateHeaderCount' = 0 /\ metadataCount' = 0
  /\ entries' = <<>> /\ errors' = <<>> /\ entryLineRanges' = <<>>
  /\ pc' = "start"
  /\ UNCHANGED << mergeVars, cleanVars, appVars >>

CallsNext == Next \/ ParseCall

SpecCalls == CallsInit /\ [][CallsNext]_vars

(***************************************************************************)
(* parsePdfDiary on lines that hold a date token among other characters:   *)
(* a token that lacks a digit (no pattern matches it, the repair rewrites  *)
(* its marker glyphs), and well-formed tokens with characters before or    *)
(* after them, a digit among these.                                        *)
(***************************************************************************)
MaxLooseLines == 3

KangxiDateLine == Year \o <<"Y", "2", "m", "8", "d">>

LeadingGarbage == <<"a">> \o HeaderLine10

TrailingGarbage == HeaderLine10 \o <<"b">>

DigitBefore == <<"5">> \o HeaderLine

LoosePool ==
  { BlankLine, HeaderLine, MetadataLine, ClosedLine, PaddedLine,
    KangxiDateLine, LeadingGarbage, TrailingGarbage, DigitBefore }

LooseInit ==
  /\ parser = "pdf"
  /\ content \in { JoinWith(ls, <<NL>>) : ls \in Inputs(LoosePool, 1, MaxLooseLines) }
  /\ lines = <<>> /\ i = 0
  /\ currentEntry = NoEntry /\ currentStartLine = 0 /\ contentLines = <<>>
  /\ expectingMetadata = FALSE /\ dateHeaderCount = 0 /\ metadataCount = 0
  /\ entries = <<>> /\ errors = <<>> /\ entryLineRanges = <<>>
  /\ pc = "start" /\ returned = <<>>
  /\ IdleMerge /\ IdleClean /\ IdleApp

LooseNext ==
  \/ Split
  \/ PdfDateHeaderStep \/ PdfMetadataStep \/ PdfNoMetadataStep \/ PdfBodyStep \/ PdfFinish

SpecLoose == LooseInit /\ [][LooseNext]_vars

(***************************************************************************)
(* diaryToMarkdown and generateFileName.  In the texts these functions     *)
(* write, the ASCII letters of the keys ("date: ", "YYYY-MM-DD", ".md")    *)
(* stand for themselves; "A" "T" stand for the two glyphs of the           *)
(* attachments heading and "J" for the default output folder name.         *)
(***************************************************************************)
\* entry.f of an optional field: Undefined when the entry has no such field
Field(entry, f) == IF f \in DOMAIN entry THEN entry[f] ELSE Undefined

\* JavaScript truthiness of an optional string
Truthy(x) == x # Undefined /\ x # <<>>

\* the value of an optional list field that is absent
NoList == << Undefined >>

ListField(entry, f) == IF f \in DOMAIN entry THEN entry[f] ELSE NoList

\* list && list.length > 0
NonEmptyList(x) == x # NoList /\ x # <<>>

Dashes == <<"-", "-", "-">>

\* ' . ' of the title, with the middle dot
TitleSep == <<" ", "|", " ">>

\* '## ' and the two glyphs of the heading
AttachmentHeading == <<"#", "#", " ", "A", "T">>

\* `![[${attachment}]]`
Embed(attachment) == <<"!", "[", "[">> \o attachment \o <<"]", "]">>

\* the frontmatter lines of the optional fields that are present
OptLine(key, value) == IF Truthy(value) THEN << key \o value >> ELSE <<>>

TagsLine(tags) ==
  IF NonEmptyList(tags)
  THEN << <<"t", "a", "g", "s", ":", " ", "[">> \o JoinWith(tags, <<",", " ">>) \o <<"]">> >>
  ELSE <<>>

LocationLine(location) ==
  IF Truthy(location)
  THEN << <<"l", "o", "c", "a", "t", "i", "o", "n", ":", " ", "\"">> \o location \o <<"\"">> >>
  ELSE <<>>

titleParts(entry) ==
  << entry.weekday >>
  \o (IF Truthy(Field(entry, "time")) THEN << entry.time >> ELSE <<>>)
  \o (IF Truthy(Field(entry, "weather")) THEN << entry.weather >> ELSE <<>>)
  \o (IF Truthy(Field(entry, "temperature")) THEN << entry.temperature >> ELSE <<>>)
  \o (IF Truthy(Field(entry, "location")) THEN << entry.location >> ELSE <<>>)

\* the title lines (title and a blank line) without the addTitle test
TitleLinesAlways(entry, addTitle) ==
  << <<"#", " ">> \o JoinWith(titleParts(entry), TitleSep), <<>> >>

TitleLines(entry, addTitle) ==
  IF addTitle
  THEN << <<"#", " ">> \o JoinWith(titleParts(entry), TitleSep), <<>> >>
  ELSE <<>>

AttachmentLines(attachments) ==
  IF NonEmptyList(attachments)
  THEN << <<>>, AttachmentHeading >>
       \o [k \in 1..Len(attachments) |-> Embed(attachments[k])]
  ELSE <<>>

diaryToMarkdown(entry, addTitle) ==
  LET lines0 ==
        << Dashes,
           <<"d", "a", "t", "e", ":", " ">> \o entry.date,
           <<"w", "e", "e", "k", "d", "a", "y", ":", " ">> \o entry.weekday >>
        \o OptLine(<<"t", "i", "m", "e", ":", " ">>, Field(entry, "time"))
        \o OptLine(<<"w", "e", "a", "t", "h", "e", "r", ":", " ">>, Field(entry, "weather"))
        \o OptLine(<<"t", "e", "m", "p", "e", "r", "a", "t", "u", "r", "e", ":", " ">>,
                   Field(entry, "temperature"))
        \o LocationLine(Field(entry, "location"))
        \o TagsLine(ListField(entry, "tags"))
        \o OptLine(<<"c", "a", "t", "e", "g", "o", "r", "y", ":", " ">>, Field(entry, "category"))
        \o << Dashes, <<>> >>
        \o TitleLines(entry, addTitle)
        \o << entry.content >>
        \o AttachmentLines(ListField(entry, "attachments"))
  IN JoinWith(lines0, <<NL>>)

\* the index of the first occurrence of pat in str from position from on, 0 when none
IndexOfFrom(str, pat, from) ==
  LET hits == { k \in from..(Len(str) - Len(pat) + 1) : SubSeq(str, k, k + Len(pat) - 1) = pat }
  IN IF hits = {} THEN 0 ELSE CHOOSE k \in hits : \A j \in hits : k <= j

\* String.prototype.includes
Includes(str, pat) == IndexOfFrom(str, pat, 1) > 0

\* String.prototype.replace with a string pattern: the first occurrence only
ReplaceFirst(str, pat, rep) ==
  LET k == IndexOfFrom(str, pat, 1)
  IN IF k = 0 THEN str
     ELSE SubSeq(str, 1, k - 1) \o rep \o SubSeq(str, k + Len(pat), Len(str))

generateFileName(entry, format) ==
  LET fileName ==
        ReplaceFirst(
          ReplaceFirst(
            ReplaceFirst(format, <<"Y", "Y", "Y", "Y">>, SubSeq(entry.date, 1, 4)),
            <<"M", "M">>, SubSeq(entry.date, 6, 7)),
          <<"D", "D">>, SubSeq(entry.date, 9, 10))
  IN fileName \o <<".", "m", "d">>

(***************************************************************************)
(* contentMerge.ts                                                         *)
(***************************************************************************)
\* the positions right after a match of ---\s*\n that starts at position from
FenceEnds(text, from) ==
  { e \in (from + 4)..(Len(text) + 1) :
      /\ SubSeq(text, from, from + 2) = <<"-", "-", "-">>
      /\ text[e - 1] = NL
      /\ \A q \in (from + 3)..(e - 2) : text[q] \in WhiteSpace }

\* /^---\s*\n([\s\S]*?)\n---\s*\n/ on text: the end of the match, 0 when there
\* is none.  The first \s* is greedy, the group lazy, the last \s* greedy.
frontmatterMatch(text) ==
  LET closings(a) == { b \in a..Len(text) : text[b] = NL /\ FenceEnds(text, b + 1) # {} }
      opens       == { a \in FenceEnds(text, 1) : closings(a) # {} }
  IN IF opens = {} THEN 0
     ELSE LET a == CHOOSE x \in opens : \A y \in opens : y <= x
              b == CHOOSE x \in closings(a) : \A y \in closings(a) : x <= y
              ends == FenceEnds(text, b + 1)
          IN CHOOSE x \in ends : \A y \in ends : y <= x

parseMarkdownFile(text) ==
  LET end == frontmatterMatch(text)
  IN IF end > 0
     THEN [frontmatter |-> SubSeq(text, 1, end - 1),
           body        |-> Trim(SubSeq(text, end, Len(text)))]
     ELSE [frontmatter |-> <<>>, body |-> Trim(text)]

\* '\n\n***\n\n'
separator == <<NL, NL, "*", "*", "*", NL, NL>>

\* mergeDiaryContent that keeps only the new entry's text
mergeDiaryContentOverwrite(existingContent, newEntry) ==
  LET parsed          == parseMarkdownFile(existingContent)
      newEntryContent == Trim(newEntry.content)
  IN IF newEntryContent = <<>> THEN existingContent
     ELSE (IF parsed.frontmatter # <<>> THEN parsed.frontmatter \o <<NL>> ELSE <<>>)
          \o newEntryContent

mergeDiaryContent(existingContent, newEntry) ==
  LET parsed          == parseMarkdownFile(existingContent)
      newEntryContent == Trim(newEntry.content)
  IN IF newEntryContent = <<>> THEN existingContent
     ELSE (IF parsed.frontmatter # <<>> THEN parsed.frontmatter \o <<NL>> ELSE <<>>)
          \o (IF parsed.body # <<>> THEN parsed.body \o separator ELSE <<>>)
          \o newEntryContent

\* the loop over newEntry.attachments without its check: every embed is added
RECURSIVE AddEmbedsAlways(_, _)
AddEmbedsAlways(text, attachments) ==
  IF attachments = <<>> THEN text
  ELSE AddEmbedsAlways(text \o <<NL>> \o Embed(Head(attachments)), Tail(attachments))

\* the loop over newEntry.attachments: an embed is added unless the text has it
RECURSIVE AddEmbeds(_, _)
AddEmbeds(text, attachments) ==
  IF attachments = <<>> THEN text
  ELSE AddEmbeds(IF Includes(text, Embed(Head(attachments))) THEN text
                 ELSE text \o <<NL>> \o Embed(Head(attachments)),
                 Tail(attachments))

mergeDiaryContentWithAttachments(existingContent, newEntry) ==
  LET parsed          == parseMarkdownFile(existingContent)
      newEntryContent == Trim(newEntry.content)
      attachments     == ListField(newEntry, "attachments")
      merged          ==
        (IF parsed.frontmatter # <<>> THEN parsed.frontmatter \o <<NL>> ELSE <<>>)
        \o (IF parsed.body # <<>>
            THEN parsed.body \o (IF newEntryContent # <<>> THEN separator ELSE <<>>)
            ELSE <<>>)
        \o newEntryContent
  IN IF newEntryContent = <<>> /\ ~NonEmptyList(attachments) THEN existingContent
     ELSE IF NonEmptyList(attachments)
          THEN AddEmbeds(IF Includes(merged, AttachmentHeading) THEN merged
                         ELSE merged \o <<NL, NL>> \o AttachmentHeading,
                         attachments)
          ELSE merged

(***************************************************************************)
(* diaryToMarkdown on entries of the DiaryEntry type: the optional fields  *)
(* present or absent, lists of up to MaxList tags and attachments.         *)
(***************************************************************************)
MaxList == 2

ListItems == << <<"x">>, <<"y">>, <<"x", "y">> >>

\* the lists of 0..MaxList items, and the absent list
Lists == { NoList } \cup { SubSeq(ListItems, 1, n) : n \in 0..MaxList }

Optional(value) == { Undefined, value }

MarkdownEntries ==
  [date        : { DateOf(Year, Month, Day8) },
   weekday     : { <<"W", "L">>, <<>> },
   time        : Optional(<<"2", "1", ":", "5", "5">>),
   weather     : Optional(<<"a">>),
   temperature : Optional(<<"5", "g", "C">>),
   location    : Optional(<<"b">>),
   content     : { OpenLine, ClosedLine \o <<NL, NL>> \o OpenLine },
   attachments : Lists,
   tags        : Lists,
   category    : Optional(<<"k">>)]

MarkdownInit ==
  /\ mdEntry \in MarkdownEntries
  /\ mdAddTitle \in BOOLEAN
  /\ mdResult = Null
  /\ mdpc = "call"
  /\ IdleImport /\ IdleModal
  /\ IdleParse /\ IdleMerge /\ IdleClean

MarkdownReturn ==
  /\ mdpc = "call"
  /\ mdResult' = diaryToMarkdown(mdEntry, mdAddTitle)
  /\ mdpc' = "done"
  /\ UNCHANGED << mdEntry, mdAddTitle, importVars, modalVars, parseVars, mergeVars, cleanVars >>

MarkdownNext == MarkdownReturn

SpecMarkdown == MarkdownInit /\ [][MarkdownNext]_vars

(***************************************************************************)
(* plugin.ts: importEntries and importEntriesWithImages, one loop          *)
(* iteration per step, called any number of times on batches of entries    *)
(* that hold MaxImported entries in all.  The vault is empty at first.     *)
(***************************************************************************)
MaxImported == 3

\* the decimal digits of a small number
Num(n) == << <<"0", "1", "2", "3", "4", "5", "6", "7", "8", "9">>[n + 1] >>

Slash == <<"/">>

\* an image of a page: only its format matters to the names
PngImage == [format |-> <<"p", "n", "g">>, data |-> <<"i">>]

\* `diary-${date}-p${pageNum}-${idx}.${img.format}`
imageName(date, pn, idx, img) ==
  <<"d", "i", "a", "r", "y", "-">> \o date \o <<"-", "p">> \o Num(pn)
  \o <<"-">> \o Num(idx) \o <<".">> \o img.format

\* ImportPdfModal.associateImagesWithEntries: the attachments one entry gets
\* from the pages of its range from pn on of its range
RECURSIVE PageAttachments(_, _, _, _, _)
PageAttachments(entry, pn, endPage, images, folder) ==
  IF pn > endPage THEN <<>>
  ELSE (IF pn \in DOMAIN images
        THEN [idx \in 1..Len(images[pn]) |->
                folder \o Slash \o imageName(entry.date, pn, idx - 1, images[pn][idx])]
        ELSE <<>>)
       \o PageAttachments(entry, pn + 1, endPage, images, folder)

\* lineToPage[k] for an index the table does not have: undefined
NoPage == 0

\* the pages p of for (p = startPage; p <= endPage; p++): none when a bound is undefined
PagesOf(r) ==
  IF r.startPage = NoPage \/ r.endPage = NoPage THEN {} ELSE r.startPage..r.endPage

HasImages(r, images) == \E p \in PagesOf(r) : p \in DOMAIN images

associateImagesWithEntries(es, ranges, images, folder) ==
  [k \in 1..Len(es) |->
     LET r == ranges[k]
     IN IF HasImages(r, images)
        THEN [f \in DOMAIN es[k] \cup {"attachments"} |->
                IF f = "attachments"
                THEN (IF ListField(es[k], "attachments") = NoList THEN <<>>
                      ELSE es[k].attachments)
                     \o PageAttachments(es[k], r.startPage, r.endPage, images, folder)
                ELSE es[k][f]]
        ELSE es[k]]

\* ImportPdfModal.getPageNumToDate: the date of the first entry whose page
\* range holds the page, for the pages that have images
FirstEntryOnPage(es, ranges, pn) ==
  LET hits == { k \in 1..Len(es) : pn \in PagesOf(ranges[k]) }
  IN IF hits = {} THEN 0 ELSE CHOOSE k \in hits : \A j \in hits : k <= j

getPageNumToDate(es, ranges, images) ==
  LET pages == { pn \in DOMAIN images : FirstEntryOnPage(es, ranges, pn) > 0 }
  IN [pn \in pages |-> es[FirstEntryOnPage(es, ranges, pn)].date]

\* the entries the import calls are given: of two dates, two of the same date
ImportPool ==
  { [date |-> DateOf(Year, Month, Day8), weekday |-> <<"W", "L">>,
     time |-> <<"2", "1", ":", "5", "5">>, weather |-> <<"a">>,
     temperature |-> <<"5", "g", "C">>, location |-> <<"b">>, content |-> OpenLine],
    [date |-> DateOf(Year, Month, Day8), weekday |-> <<>>, time |-> Undefined,
     weather |-> Undefined, temperature |-> Undefined, location |-> Undefined,
     content |-> ClosedLine],
    [date |-> DateOf(Year, Month, Day10), weekday |-> <<"W", "L">>, time |-> Undefined,
     weather |-> <<"a">>, temperature |-> Undefined, location |-> Undefined,
     content |-> OpenLine] }

\* the page range of the k-th entry of a document that has one entry per page
OnePerPage(n) == [k \in 1..n |-> [startPage |-> k, endPage |-> k]]

\* the images of a document: none, or one image on page 1
PageImageMaps == { EmptyMap, [pn \in {1} |-> << PngImage >>] }

ImportInit ==
  /\ settings \in { [DEFAULT_SETTINGS EXCEPT !.groupByYear = g] : g \in BOOLEAN }
  /\ vault = EmptyMap /\ folders = {}
  /\ imKind = "none" /\ imEntries = <<>> /\ imPageImages = EmptyMap /\ imPageToDate = EmptyMap
  /\ imIdx = 0 /\ imResult = NoResult /\ imported = <<>> /\ impc = "ready"
  /\ IdleMarkdown /\ IdleModal
  /\ IdleParse /\ IdleMerge /\ IdleClean

\* ensureFolder
ensureFolder(fs, path) == fs \cup { path }

\* importEntries(entries), as ImportModal calls it
ImportEntriesCall ==
  /\ impc = "ready"
  /\ \E batch \in Inputs(ImportPool, 1, MaxImported - Len(imported)) :
       imEntries' = batch
  /\ imKind' = "entries"
  /\ imPageImages' = EmptyMap /\ imPageToDate' = EmptyMap
  /\ imIdx' = 0 /\ imResult' = NoResult
  /\ folders' = ensureFolder(folders, settings.outputFolder)
  /\ impc' = "entries"
  /\ UNCHANGED << settings, vault, imported, mdVars, modalVars, parseVars, mergeVars, cleanVars >>

\* importEntriesWithImages(entriesWithImages, pageImages, pageNumToDate), as
\* the import button of ImportPdfModal calls it
ImportWithImagesCall ==
  /\ impc = "ready"
  /\ \E batch \in Inputs(ImportPool, 1, MaxImported - Len(imported)),
        images \in PageImageMaps :
       /\ imEntries' = associateImagesWithEntries(batch, OnePerPage(Len(batch)), images,
                                                  settings.attachmentFolder)
       /\ imPageImages' = images
       /\ imPageToDate' = getPageNumToDate(batch, OnePerPage(Len(batch)), images)
  /\ imKind' = "images"
  /\ imIdx' = 0 /\ imResult' = NoResult
  /\ folders' = ensureFolder(
                  ensureFolder(folders, settings.outputFolder),
                  IF settings.importAttachments THEN settings.attachmentFolder
                  ELSE settings.outputFolder)
  /\ impc' = "images"
  /\ UNCHANGED << settings, vault, imported, mdVars, modalVars, parseVars, mergeVars, cleanVars >>

\* the images of one page saved under their names, unless a file of that name exists
RECURSIVE SavePageImages(_, _, _, _, _, _)
SavePageImages(v, n, date, pn, images, idx) ==
  IF idx > Len(images) THEN [vault |-> v, imagesImported |-> n]
  ELSE LET imagePath == settings.attachmentFolder \o Slash
                        \o imageName(date, pn, idx - 1, images[idx])
       IN IF imagePath \in DOMAIN v
          THEN SavePageImages(v, n, date, pn, images, idx + 1)
          ELSE SavePageImages(v @@ (imagePath :> images[idx].data), n + 1,
                              date, pn, images, idx + 1)

\* for (const [pageNum, images] of pageImages): in page order
RECURSIVE SaveImagesFrom(_, _, _)
SaveImagesFrom(v, n, pn) ==
  IF \A q \in DOMAIN imPageImages : q < pn THEN [vault |-> v, imagesImported |-> n]
  ELSE IF pn \notin DOMAIN imPageImages \/ pn \notin DOMAIN imPageToDate
       THEN SaveImagesFrom(v, n, pn + 1)
       ELSE LET r == SavePageImages(v, n, imPageToDate[pn], pn,
                                    imPageImages[pn], 1)
            IN SaveImagesFrom(r.vault, r.imagesImported, pn + 1)

\* importEntriesWithImages: the images are saved first
SaveImages ==
  /\ impc = "images"
  /\ LET r == IF settings.importAttachments /\ DOMAIN imPageImages # {}
              THEN SaveImagesFrom(vault, 0, 1)
              ELSE [vault |-> vault, imagesImported |-> 0]
     IN /\ vault' = r.vault
        /\ imResult' = [imResult EXCEPT !.imagesImported = r.imagesImported]
  /\ impc' = "entries"
  /\ UNCHANGED << settings, folders, imKind, imEntries, imPageImages, imPageToDate, imIdx,
                  imported, mdVars, modalVars, parseVars, mergeVars, cleanVars >>

\* the folder of an entry's note
folderPath(entry) ==
  IF settings.groupByYear
  THEN settings.outputFolder \o Slash \o SubSeq(entry.date, 1, 4)
  ELSE settings.outputFolder

filePath(entry) ==
  folderPath(entry) \o Slash \o generateFileName(entry, settings.dateFormat)

\* the text written into the note that exists already
NoteText(entry, existing) ==
  IF imKind = "entries" THEN mergeDiaryContent(existing, entry)
  ELSE mergeDiaryContentWithAttachments(existing, entry)

\* one iteration of the loop over the entries; the vault write succeeds
ImportEntryStep ==
  /\ impc = "entries" /\ imIdx < Len(imEntries)
  /\ LET entry == imEntries[imIdx + 1]
         path  == filePath(entry)
     IN /\ folders' = ensureFolder(folders, folderPath(entry))
        /\ vault' = IF path \in DOMAIN vault
                    THEN [vault EXCEPT ![path] = NoteText(entry, vault[path])]
                    ELSE vault @@ (path :> diaryToMarkdown(entry, settings.addTitle))
        /\ imported' = Append(imported, entry)
  /\ imResult' = [imResult EXCEPT !.success = @ + 1]
  /\ imIdx' = imIdx + 1
  /\ UNCHANGED << settings, imKind, imEntries, imPageImages, imPageToDate, impc,
                  mdVars, modalVars, parseVars, mergeVars, cleanVars >>

\* after the loop: the import time is stored and the result returned
ImportReturn ==
  /\ impc = "entries" /\ imIdx = Len(imEntries)
  /\ settings' = [settings EXCEPT !.lastImportTime = @ + 1]
  /\ impc' = "ready"
  /\ UNCHANGED << vault, folders, imKind, imEntries, imPageImages, imPageToDate, imIdx,
                  imResult, imported, mdVars, modalVars, parseVars, mergeVars, cleanVars >>

ImportNext ==
  \/ ImportEntriesCall \/ ImportWithImagesCall \/ SaveImages
  \/ ImportEntryStep \/ ImportReturn

SpecImport == ImportInit /\ [][ImportNext]_vars

(***************************************************************************)
(* The import loop when the vault rejects a call.  Everything an iteration *)
(* awaits (ensureFolder of the year folder, vault.read, vault.modify,      *)
(* vault.create) is inside the try block of the iteration (plugin.ts       *)
(* 64-88, 153-177): the catch pushes one error string and the loop goes    *)
(* on.  The vault rejects calls only while lastImportTime is below         *)
(* MaxFailTime, which keeps the number of import calls finite.             *)
(***************************************************************************)
MaxFailTime == 1

\* `${entry.date}: ${error.message}`
ErrorText(entry) == entry.date \o <<":", " ", "e">>

\* an iteration that throws and ends the loop
ImportEntryFailsEndsLoop ==
  /\ impc = "entries" /\ imIdx < Len(imEntries)
  /\ settings.lastImportTime < MaxFailTime
  /\ imResult' = [imResult EXCEPT !.errors = Append(@, ErrorText(imEntries[imIdx + 1]))]
  /\ imIdx' = Len(imEntries)
  /\ UNCHANGED << settings, vault, folders, imKind, imEntries, imPageImages, imPageToDate,
                  imported, impc, mdVars, modalVars, parseVars, mergeVars, cleanVars >>

\* one iteration of the loop over the entries; a call of the vault throws,
\* in ensureFolder or after it
ImportEntryFails ==
  /\ impc = "entries" /\ imIdx < Len(imEntries)
  /\ settings.lastImportTime < MaxFailTime
  /\ LET entry == imEntries[imIdx + 1]
     IN /\ folders' \in { folders, ensureFolder(folders, folderPath(entry)) }
        /\ imResult' = [imResult EXCEPT !.errors = Append(@, ErrorText(entry))]
  /\ imIdx' = imIdx + 1
  /\ UNCHANGED << settings, vault, imKind, imEntries, imPageImages, imPageToDate,
                  imported, impc, mdVars, modalVars, parseVars, mergeVars, cleanVars >>

\* importEntries alone, with iterations that fail
FailNext ==
  \/ ImportEntriesCall
  \/ ImportEntryStep \/ ImportEntryFails \/ ImportReturn

SpecFail == ImportInit /\ [][FailNext]_vars

(***************************************************************************)
(* ImportPdfModal: handleFile on one PDF document, then the import button. *)
(* parsePdfDiary runs inside handleFile by the steps of the parser above.  *)
(***************************************************************************)
MaxPages == 2

\* the text lines of one page as handleFile groups them: an item with an
\* empty string is dropped, so no line of a page is empty
PagePool ==
  { <<>>,
    << HeaderLine >>,
    << HeaderLine, MetadataLine, OpenLine >>,
    << OpenLine, ClosedLine >>,
    << MetadataLine, ClosedLine >>,
    << ClosedLine, HeaderLine, OpenLine >>,
    << ClosedLine, HeaderLine10, OpenLine >> }

\* the documents: up to MaxPages pages, each page with one image or none
Documents ==
  { [k \in 1..Len(ps) |-> [lines  |-> ps[k],
                           images |-> IF k \in withImage THEN << PngImage >> ELSE <<>>]] :
      ps \in Inputs(PagePool, 1, MaxPages), withImage \in SUBSET (1..MaxPages) }

\* handleFile: the document is loaded and the fields of the modal are reset
HandleFile ==
  /\ hpc = "idle"
  /\ pdfDocument' \in Documents
  /\ pageImages' = EmptyMap /\ pageTexts' = <<>>
  /\ thisEntries' = <<>> /\ entryPageRanges' = <<>>
  /\ pageNum' = 1
  /\ hpc' = "pages"
  /\ UNCHANGED << pdfText, lineToPage, notice, second, failed, mdVars, importVars,
                  parseVars, mergeVars, cleanVars >>

\* the second call of handleFile is not running: it has not started, it
\* awaits a page or it has returned
SecondYields ==
  \/ second.hpc \in {"idle", "ready"}
  \/ second.hpc = "pages" /\ second.pageNum <= Len(second.pdfDocument)

\* one iteration of the page loop: the text of the page and its images
ExtractPage ==
  /\ hpc = "pages" /\ pageNum <= Len(pdfDocument)
  /\ SecondYields
  /\ LET page == pdfDocument[pageNum]
     IN /\ pageTexts' = Append(pageTexts, JoinWith(page.lines, <<NL>>))
        /\ pageImages' = IF settings.importAttachments /\ Len(page.images) > 0
                         THEN (pageNum :> page.images) @@ pageImages
                         ELSE pageImages
  /\ pageNum' = pageNum + 1
  /\ UNCHANGED << pdfDocument, pdfText, thisEntries, entryPageRanges, lineToPage, notice, hpc,
                  second, failed, mdVars, importVars, parseVars, mergeVars, cleanVars >>

\* the lines of the full text and the page of each: the lines of the pages
\* from the p-th on (p counts from 0), an empty line after every page but the last
RECURSIVE PageLines(_, _)
PageLines(texts, p) ==
  IF p >= Len(texts) THEN [lines |-> <<>>, lineToPage |-> <<>>]
  ELSE LET pageLines == SplitLines(texts[p + 1])
           between   == p < Len(texts) - 1
           rest      == PageLines(texts, p + 1)
       IN [lines      |-> pageLines \o (IF between THEN << <<>> >> ELSE <<>>) \o rest.lines,
           lineToPage |-> [k \in 1..Len(pageLines) |-> p + 1]
                          \o (IF between THEN << p + 2 >> ELSE <<>>) \o rest.lineToPage]

\* the page loop is over: the full text is built and parsePdfDiary called
BuildFullText ==
  /\ hpc = "pages" /\ pageNum > Len(pdfDocument)
  /\ LET built    == PageLines(pageTexts, 0)
         fullText == JoinWith(built.lines, <<NL>>)
     IN /\ lineToPage' = built.lineToPage
        /\ pdfText' = fullText
        /\ content' = fullText
  /\ parser' = "pdf" /\ lines' = <<>> /\ i' = 0
  /\ currentEntry' = NoEntry /\ currentStartLine' = 0 /\ contentLines' = <<>>
  /\ expectingMetadata' = FALSE /\ dateHeaderCount' = 0 /\ metadataCount' = 0
  /\ entries' = <<>> /\ errors' = <<>> /\ entryLineRanges' = <<>>
  /\ pc' = "start"
  /\ hpc' = "parsing"
  /\ UNCHANGED << pdfDocument, pageNum, pageTexts, pageImages, thisEntries, entryPageRanges,
                  notice, second, failed, returned, mdVars, importVars, mergeVars, cleanVars >>

\* lineToPage read with an index that counts from 1
PageOfLineOneBased(table, index) == IF index \in DOMAIN table THEN table[index] ELSE NoPage

\* lineToPage[index]: undefined for an index the table does not have
PageOfLine(table, index) == IF index + 1 \in DOMAIN table THEN table[index + 1] ELSE NoPage

\* the page ranges pushed for the line ranges: for all entries or for none
trackPositions(es, lineRanges, table) ==
  IF Len(lineRanges) = Len(es)
  THEN [k \in 1..Len(es) |->
          [startPage |-> PageOfLine(table, lineRanges[k].startLine),
           endPage   |-> PageOfLine(table, lineRanges[k].endLine)]]
  ELSE <<>>

\* parsePdfDiary has returned: the entries are kept and their page ranges pushed
TrackPositions ==
  /\ hpc = "parsing" /\ pc = "done"
  /\ thisEntries' = entries
  /\ entryPageRanges' = entryPageRanges \o trackPositions(entries, entryLineRanges, lineToPage)
  /\ hpc' = "ready"
  /\ UNCHANGED << pdfDocument, pageNum, pageTexts, pageImages, pdfText, lineToPage, notice,
                  second, failed, mdVars, importVars, parseVars, mergeVars, cleanVars >>

\* the import button passes its first check
CanImport == hpc = "ready" /\ impc = "ready" /\ pdfText # Null /\ Len(thisEntries) > 0

\* the import button: the page ranges do not match the entries
ImportClickAbort ==
  /\ CanImport
  /\ Len(entryPageRanges) # Len(thisEntries)
  /\ notice' = "abnormal"
  /\ UNCHANGED << pdfDocument, pageNum, pageTexts, pageImages, pdfText, thisEntries,
                  entryPageRanges, lineToPage, hpc, second, failed,
                  mdVars, importVars, parseVars, mergeVars, cleanVars >>

\* the import button: the images are put on the entries and
\* importEntriesWithImages is called
ImportClick ==
  /\ CanImport
  /\ Len(entryPageRanges) = Len(thisEntries)
  /\ LET entriesWithImages == associateImagesWithEntries(thisEntries, entryPageRanges,
                                                         pageImages, settings.attachmentFolder)
     IN /\ thisEntries' = entriesWithImages
        /\ imEntries' = entriesWithImages
  /\ imPageImages' = pageImages
  /\ imPageToDate' = getPageNumToDate(thisEntries, entryPageRanges, pageImages)
  /\ imKind' = "images"
  /\ imIdx' = 0 /\ imResult' = NoResult
  /\ folders' = ensureFolder(
                  ensureFolder(folders, settings.outputFolder),
                  IF settings.importAttachments THEN settings.attachmentFolder
                  ELSE settings.outputFolder)
  /\ impc' = "images"
  /\ hpc' = "importing"
  /\ UNCHANGED << pdfDocument, pageNum, pageTexts, pageImages, pdfText, entryPageRanges,
                  lineToPage, notice, second, failed, settings, vault, imported,
                  mdVars, parseVars, mergeVars, cleanVars >>

\* importEntriesWithImages has returned: the result is shown and the modal closed
CloseModal ==
  /\ hpc = "importing" /\ impc = "ready"
  /\ notice' = "done"
  /\ hpc' = "closed"
  /\ UNCHANGED << pdfDocument, pageNum, pageTexts, pageImages, pdfText, thisEntries,
                  entryPageRanges, lineToPage, second, failed,
                  mdVars, importVars, parseVars, mergeVars, cleanVars >>

ModalInit ==
  /\ settings = DEFAULT_SETTINGS
  /\ vault = EmptyMap /\ folders = {}
  /\ imKind = "none" /\ imEntries = <<>> /\ imPageImages = EmptyMap /\ imPageToDate = EmptyMap
  /\ imIdx = 0 /\ imResult = NoResult /\ imported = <<>> /\ impc = "ready"
  /\ IdleModal /\ IdleMarkdown
  /\ IdleParse /\ IdleMerge /\ IdleClean

ModalNext ==
  \/ HandleFile \/ ExtractPage \/ BuildFullText
  \/ Split \/ PdfDateHeaderStep \/ PdfMetadataStep \/ PdfNoMetadataStep \/ PdfBodyStep \/ PdfFinish
  \/ TrackPositions
  \/ ImportClick \/ SaveImages \/ ImportEntryStep \/ ImportReturn \/ CloseModal

SpecModal == ModalInit /\ [][ModalNext]_vars

(***************************************************************************)
(* The import button when the import fails.  importEntriesWithImages       *)
(* awaits ensureFolder outside every try block (plugin.ts 120-124): a      *)
(* rejection of vault.createFolder reaches the click handler, whose catch  *)
(* shows a notice and whose finally enables the button again (part_002     *)
(* 127-132).  The modal stays open with the entries that                   *)
(* associateImagesWithEntries has changed in place.                        *)
(***************************************************************************)
MaxFailed == 1

\* the import button: the images are put on the entries, then
\* importEntriesWithImages throws
ImportClickFails ==
  /\ CanImport
  /\ Len(entryPageRanges) = Len(thisEntries)
  /\ failed < MaxFailed
  /\ thisEntries' = associateImagesWithEntries(thisEntries, entryPageRanges,
                                               pageImages, settings.attachmentFolder)
  /\ notice' = "failed"
  /\ failed' = failed + 1
  /\ UNCHANGED << pdfDocument, pageNum, pageTexts, pageImages, pdfText, entryPageRanges,
                  lineToPage, hpc, second,
                  mdVars, importVars, parseVars, mergeVars, cleanVars >>

RetryNext ==
  \/ HandleFile \/ ExtractPage \/ BuildFullText
  \/ Split \/ PdfDateHeaderStep \/ PdfMetadataStep \/ PdfNoMetadataStep \/ PdfBodyStep \/ PdfFinish
  \/ TrackPositions
  \/ ImportClickFails
  \/ ImportClick \/ SaveImages \/ ImportEntryStep \/ ImportReturn \/ CloseModal

SpecRetry == ModalInit /\ [][RetryNext]_vars

(***************************************************************************)
(* handleFile called a second time while the first call awaits a page      *)
(* (part_002 208-209, 243).  Both calls work on the fields of the one      *)
(* modal; pdfDocument, pageNum and the position in the code are local to   *)
(* a call.  A call runs from one await to the next without interruption:   *)
(* from the last await of the page loop it builds the full text, parses    *)
(* and tracks the positions before the other call can go on.               *)
(***************************************************************************)
MaxRacePages == 2

RacePool == { << HeaderLine, MetadataLine, OpenLine >>, << HeaderLine10, ClosedLine >> }

\* the documents of the two calls: an image on the first page or none
RaceDocuments ==
  { [k \in 1..Len(ps) |-> [lines  |-> ps[k],
                           images |-> IF k \in withImage THEN << PngImage >> ELSE <<>>]] :
      ps \in Inputs(RacePool, 1, MaxRacePages), withImage \in { {}, {1} } }

\* the first call awaits a page or has returned
FirstYields ==
  \/ hpc = "ready"
  \/ hpc = "pages" /\ pageNum <= Len(pdfDocument)

\* the second call: the document is loaded and the fields of the modal are reset
HandleFile2 ==
  /\ second.hpc = "idle"
  /\ hpc = "pages" /\ pageNum <= Len(pdfDocument)
  /\ \E doc \in RaceDocuments :
       second' = [pdfDocument |-> doc, pageNum |-> 1, hpc |-> "pages"]
  /\ pageImages' = EmptyMap /\ pageTexts' = <<>>
  /\ thisEntries' = <<>> /\ entryPageRanges' = <<>>
  /\ UNCHANGED << pdfDocument, pageNum, pdfText, lineToPage, notice, hpc, failed,
                  mdVars, importVars, parseVars, mergeVars, cleanVars >>

\* the second call: one iteration of its page loop
ExtractPage2 ==
  /\ second.hpc = "pages" /\ second.pageNum <= Len(second.pdfDocument)
  /\ FirstYields
  /\ LET page == second.pdfDocument[second.pageNum]
     IN /\ pageTexts' = Append(pageTexts, JoinWith(page.lines, <<NL>>))
        /\ pageImages' = IF settings.importAttachments /\ Len(page.images) > 0
                         THEN (second.pageNum :> page.images) @@ pageImages
                         ELSE pageImages
  /\ second' = [second EXCEPT !.pageNum = @ + 1]
  /\ UNCHANGED << pdfDocument, pageNum, pdfText, thisEntries, entryPageRanges, lineToPage,
                  notice, hpc, failed, mdVars, importVars, parseVars, mergeVars, cleanVars >>

\* the second call: its page loop is over, the full text is built from the
\* page texts of the modal and parsePdfDiary called
BuildFullText2 ==
  /\ second.hpc = "pages" /\ second.pageNum > Len(second.pdfDocument)
  /\ LET built    == PageLines(pageTexts, 0)
         fullText == JoinWith(built.lines, <<NL>>)
     IN /\ lineToPage' = built.lineToPage
        /\ pdfText' = fullText
        /\ content' = fullText
  /\ parser' = "pdf" /\ lines' = <<>> /\ i' = 0
  /\ currentEntry' = NoEntry /\ currentStartLine' = 0 /\ contentLines' = <<>>
  /\ expectingMetadata' = FALSE /\ dateHeaderCount' = 0 /\ metadataCount' = 0
  /\ entries' = <<>> /\ errors' = <<>> /\ entryLineRanges' = <<>>
  /\ pc' = "start"
  /\ second' = [second EXCEPT !.hpc = "parsing"]
  /\ UNCHANGED << pdfDocument, pageNum, pageTexts, pageImages, thisEntries, entryPageRanges,
                  notice, hpc, failed, returned, mdVars, importVars, mergeVars, cleanVars >>

\* the second call: parsePdfDiary has returned
TrackPositions2 ==
  /\ second.hpc = "parsing" /\ pc = "done"
  /\ thisEntries' = entries
  /\ entryPageRanges' = entryPageRanges \o trackPositions(entries, entryLineRanges, lineToPage)
  /\ second' = [second EXCEPT !.hpc = "ready"]
  /\ UNCHANGED << pdfDocument, pageNum, pageTexts, pageImages, pdfText, lineToPage, notice,
                  hpc, failed, mdVars, importVars, parseVars, mergeVars, cleanVars >>

\* the first call has loaded its document and reset the fields
RaceInit ==
  /\ settings = DEFAULT_SETTINGS
  /\ vault = EmptyMap /\ folders = {}
  /\ imKind = "none" /\ imEntries = <<>> /\ imPageImages = EmptyMap /\ imPageToDate = EmptyMap
  /\ imIdx = 0 /\ imResult = NoResult /\ imported = <<>> /\ impc = "ready"
  /\ IdleMarkdown /\ IdleParse /\ IdleMerge /\ IdleClean
  /\ pdfDocument \in RaceDocuments /\ pageNum = 1
  /\ pageTexts = <<>> /\ pageImages = EmptyMap /\ pdfText = Null
  /\ thisEntries = <<>> /\ entryPageRanges = <<>> /\ lineToPage = <<>>
  /\ notice = "none" /\ hpc = "pages"
  /\ second = NoSecond /\ failed = 0

RaceNext ==
  \/ ExtractPage \/ BuildFullText
  \/ Split \/ PdfDateHeaderStep \/ PdfMetadataStep \/ PdfNoMetadataStep \/ PdfBodyStep \/ PdfFinish
  \/ TrackPositions
  \/ HandleFile2 \/ ExtractPage2 \/ BuildFullText2 \/ TrackPositions2

SpecRace == RaceInit /\ [][RaceNext]_vars

(***************************************************************************)
(* The position tracking of handleFile (part_002 272-282) and the import   *)
(* button as a unit of their own: they start from what parsePdfDiary and   *)
(* the table construction may hand them, lists that do not fit each other  *)
(* included.  parsePdfDiary itself pushes an entry and its line range      *)
(* together, so that handleFile only ever passes lists that fit.           *)
(***************************************************************************)
MaxTracked == 2

\* line ranges (indices count from 0) and line -> page tables
LineRangePool ==
  { [startLine |-> 0, endLine |-> 1], [startLine |-> 2, endLine |-> 3],
    [startLine |-> 2, endLine |-> 5] }

PageTables == { << 1, 1, 2, 2 >>, << 1, 1 >> }

TrackerInit ==
  /\ settings = DEFAULT_SETTINGS
  /\ vault = EmptyMap /\ folders = {}
  /\ imKind = "none" /\ imEntries = <<>> /\ imPageImages = EmptyMap /\ imPageToDate = EmptyMap
  /\ imIdx = 0 /\ imResult = NoResult /\ imported = <<>> /\ impc = "ready"
  /\ IdleMarkdown /\ IdleMerge /\ IdleClean
  /\ pdfDocument = <<>> /\ pageNum = 0 /\ pageTexts = <<>>
  /\ pageImages \in { EmptyMap, [pn \in {2} |-> << PngImage >>] }
  /\ lineToPage \in PageTables
  /\ pdfText = JoinWith([k \in 1..Len(lineToPage) |-> ClosedLine], <<NL>>)
  /\ thisEntries = <<>> /\ entryPageRanges = <<>>
  /\ notice = "none" /\ hpc = "parsing"
  /\ second = NoSecond /\ failed = 0
  /\ parser = "pdf" /\ content = pdfText /\ lines = SplitLines(pdfText) /\ i = Len(lines)
  /\ currentEntry = NoEntry /\ currentStartLine = 0 /\ contentLines = <<>>
  /\ expectingMetadata = FALSE /\ dateHeaderCount = 0 /\ metadataCount = 0
  /\ entries \in Inputs(ImportPool, 0, MaxTracked)
  /\ entryLineRanges \in Inputs(LineRangePool, 0, MaxTracked)
  /\ errors = <<>> /\ pc = "done" /\ returned = <<>>

TrackerNext ==
  \/ TrackPositions \/ ImportClickAbort
  \/ ImportClick \/ SaveImages \/ ImportEntryStep \/ ImportReturn \/ CloseModal

SpecTracker == TrackerInit /\ [][TrackerNext]_vars

(***************************************************************************)
(* The parsers on entries that carry a temperature token: every token the  *)
(* metadata-line pattern (-?\d+[gc]C?) and the date-line pattern (-?\d+c)  *)
(* accept, with up to MaxTempDigits digits.                                *)
(***************************************************************************)
MaxTempDigits == 2

DigitRuns == UNION { [1..n -> {"0", "5"}] : n \in 1..MaxTempDigits }

Signs == { <<>>, <<"-">> }

\* the unit glyphs the metadata-line pattern accepts after the digits
PdfUnits == { <<"g">>, <<"c">>, <<"g", "C">>, <<"c", "C">> }

\* the unit glyph the date-line pattern accepts after the digits
TxtUnits == { <<"c">> }

PdfTempTokens == { sg \o d \o u : sg \in Signs, d \in DigitRuns, u \in PdfUnits }

TxtTempTokens == { sg \o d \o u : sg \in Signs, d \in DigitRuns, u \in TxtUnits }

\* 'W6 . 21:55 . weather . temperature . location', with and without blanks
\* around the separators
MkMetadataLine(sep, t) ==
  <<"W", "L">> \o sep \o <<"2", "1", ":", "5", "5">> \o sep \o <<"a">> \o sep \o t \o sep \o <<"b">>

TempMetadataLines ==
  { MkMetadataLine(sep, t) : sep \in { <<"|">>, <<" ", "|", " ">> }, t \in PdfTempTokens }

\* 'date W6 . temperature . location'
MkTempDateLine(t) ==
  Year \o <<"Y">> \o Month \o <<"M">> \o Day10 \o <<"D", " ", "W", "L">>
  \o <<" ", "|", " ">> \o t \o <<" ", "|", " ">> \o <<"b">>

TempInputs ==
  [parser : {"pdf"},
   content : { JoinWith(<< HeaderLine, m, OpenLine >>, <<NL>>) :
                 m \in TempMetadataLines \cup { OpenLine } }]
  \cup
  [parser : {"txt"},
   content : { JoinWith(<< MkTempDateLine(t), OpenLine >>, <<NL>>) : t \in TxtTempTokens }]

TempInit ==
  /\ \E inp \in TempInputs : parser = inp.parser /\ content = inp.content
  /\ lines = <<>> /\ i = 0
  /\ currentEntry = NoEntry /\ currentStartLine = 0 /\ contentLines = <<>>
  /\ expectingMetadata = FALSE /\ dateHeaderCount = 0 /\ metadataCount = 0
  /\ entries = <<>> /\ errors = <<>> /\ entryLineRanges = <<>>
  /\ pc = "start" /\ returned = <<>>
  /\ IdleMerge /\ IdleClean /\ IdleApp

SpecTemp == TempInit /\ [][Next]_vars

(***************************************************************************)
(* mergeContentLinesToParagraphs, one loop iteration per step.             *)
(***************************************************************************)
MaxBody == 4

\* a metadata-shaped text cut in two by a hard line wrap
MetaHead == <<"W", "L", "|", "2", "1", ":", "5", "5", "|", "a">>
MetaTail == <<"|", "b", ".">>
InfoLine == <<"W", "L", "|", "2", "1", ":", "5", "5", "|", "a", "|", "b">>

BodyPool == { BlankLine, OpenLine, ClosedLine, PaddedLine, InfoLine, MetaHead, MetaTail }

MergeInit ==
  /\ mLines \in Inputs(BodyPool, 0, MaxBody)
  /\ mIdx = 0
  /\ paragraphs = << <<>> >>
  /\ mResult = Null
  /\ mpc = "loop"
  /\ IdleParse /\ IdleClean /\ IdleApp

MergeInLoop == mpc = "loop" /\ mIdx < Len(mLines)

MergeLine == mLines[mIdx + 1]

MergeBlankStep ==
  /\ MergeInLoop
  /\ Trim(MergeLine) = <<>>
  /\ paragraphs' = MergeBlank(paragraphs)
  /\ mIdx' = mIdx + 1
  /\ UNCHANGED << mLines, mResult, mpc, parseVars, cleanVars, appVars >>

MergeInfoStep ==
  /\ MergeInLoop
  /\ Trim(MergeLine) # <<>>
  /\ isInfoLine(MergeLine)
  /\ paragraphs' = MergeInfo(paragraphs, Trim(MergeLine))
  /\ mIdx' = mIdx + 1
  /\ UNCHANGED << mLines, mResult, mpc, parseVars, cleanVars, appVars >>

MergeNormalStep ==
  /\ MergeInLoop
  /\ Trim(MergeLine) # <<>>
  /\ ~isInfoLine(MergeLine)
  /\ paragraphs' = MergeNormal(paragraphs, Trim(MergeLine))
  /\ mIdx' = mIdx + 1
  /\ UNCHANGED << mLines, mResult, mpc, parseVars, cleanVars, appVars >>

MergeReturn ==
  /\ mpc = "loop" /\ mIdx = Len(mLines)
  /\ mResult' = IF Len(mLines) = 0 THEN <<>> ELSE MergeJoin(paragraphs)
  /\ mpc' = "done"
  /\ UNCHANGED << mLines, mIdx, paragraphs, parseVars, cleanVars, appVars >>

MergeNext == MergeBlankStep \/ MergeInfoStep \/ MergeNormalStep \/ MergeReturn

SpecMerge == MergeInit /\ [][MergeNext]_vars

(***************************************************************************)
(* mergeContentLinesToParagraphs on bodies that hold info lines of every   *)
(* kind: a metadata line, a date line, a date header with '#', a padded    *)
(* date line.                                                              *)
(***************************************************************************)
MaxInfoBody == 4

HashHeader == <<"#", " ">> \o HeaderLine

PaddedHeader == <<" ">> \o HeaderLine10 \o <<" ">>

InfoPool == { BlankLine, OpenLine, ClosedLine, InfoLine, HashHeader, PaddedHeader }

InfoInit ==
  /\ mLines \in Inputs(InfoPool, 0, MaxInfoBody)
  /\ mIdx = 0
  /\ paragraphs = << <<>> >>
  /\ mResult = Null
  /\ mpc = "loop"
  /\ IdleParse /\ IdleClean /\ IdleApp

SpecInfo == InfoInit /\ [][MergeNext]_vars

(***************************************************************************)
(* cleanRepeatedChars on date tokens: applied once, applied to its own     *)
(* result, and the date-header test of parsePdfDiary on the repaired line. *)
(***************************************************************************)
MaxRep == 3

RECURSIVE Rep(_, _)
Rep(x, k) == IF k = 0 THEN <<>> ELSE x \o Rep(x, k - 1)

\* digit runs: exact repetitions of the clean run, and runs that are not
YearRuns  == { Rep(Year, k) : k \in 1..MaxRep } \cup { Year \o <<"8">>, <<"2", "0", "2">> }
MonthRuns == { Rep(Month, k) : k \in 1..MaxRep } \cup { Month \o <<"5">> }
DayRuns   == { Rep(Day8, k) : k \in 1..MaxRep } \cup { Day8 \o <<"0">> }

Token(yr, mm, mr, dd, dr) == yr \o <<"Y">> \o mr \o <<mm>> \o dr \o <<dd>>

DateTokens ==
  { Token(yr, mm, mr, dd, dr) :
      yr \in YearRuns, mm \in {"M", "m"}, mr \in MonthRuns, dd \in {"D", "d"}, dr \in DayRuns }

CleanInputs ==
  { pre \o t \o suf : pre \in {<<>>, <<" ">>, <<"a">>}, t \in DateTokens, suf \in {<<>>, <<"b">>} }
  \cup { <<>>, OpenLine, <<"Y">>, Year \o <<"Y">>, MetadataLine }

CleanInit ==
  /\ cText \in CleanInputs
  /\ cOnce = Null /\ cTwice = Null /\ cMatch = [ok |-> FALSE, date |-> Undefined]
  /\ cpc = "start"
  /\ IdleParse /\ IdleMerge /\ IdleApp

CleanOnce ==
  /\ cpc = "start"
  /\ cOnce' = cleanRepeatedChars(cText)
  /\ cpc' = "once"
  /\ UNCHANGED << cText, cTwice, cMatch, parseVars, mergeVars, appVars >>

CleanTwice ==
  /\ cpc = "once"
  /\ cTwice' = cleanRepeatedChars(cOnce)
  /\ cpc' = "twice"
  /\ UNCHANGED << cText, cOnce, cMatch, parseVars, mergeVars, appVars >>

CleanClassify ==
  /\ cpc = "twice"
  /\ cMatch' = PdfDateMatch(cOnce)
  /\ cpc' = "done"
  /\ UNCHANGED << cText, cOnce, cTwice, parseVars, mergeVars, appVars >>

CleanNext == CleanOnce \/ CleanTwice \/ CleanClassify

SpecClean == CleanInit /\ [][CleanNext]_vars

(***************************************************************************)
(* Properties of the parsers.                                              *)
(***************************************************************************)
\* a line of a text is blank when it is empty or white space only
IsBlank(line) == Trim(line) = <<>>

NoEdgeBlankLine(text) ==
  LET ls == SplitLines(text) IN ~IsBlank(ls[1]) /\ ~IsBlank(ls[Len(ls)])

NoBlankLineRun(text) ==
  LET ls == SplitLines(text)
  IN \A k \in 1..(Len(ls) - 1) : ~(IsBlank(ls[k]) /\ IsBlank(ls[k + 1]))

IsPrefix(a, b) == Len(a) <= Len(b) /\ SubSeq(b, 1, Len(a)) = a

AllBlank(ls) == \A k \in 1..Len(ls) : IsBlank(ls[k])

\* C1: parsePdfDiary returns as many line ranges as entries, and the
\* startLine of the ranges is strictly increasing in sequence order.
C1_RangesParallelAndIncreasing ==
  parser = "pdf" =>
    /\ Len(entries) = Len(entryLineRanges)
    /\ \A k \in 1..(Len(entryLineRanges) - 1) :
         entryLineRanges[k].startLine < entryLineRanges[k + 1].startLine

C1_Witness ==
  parser = "pdf" /\ pc = "done" /\ Len(entries) >= 2 /\ Len(entryLineRanges) >= 2

C3_NoBlankRunsEitherParser ==
  \A k \in 1..Len(entries) :
    NoEdgeBlankLine(entries[k].content) /\ NoBlankLineRun(entries[k].content)

\* C3 amended: the content of every entry of either parser has no leading or
\* trailing blank line; the content of an entry of parsePdfDiary has no run
\* of two or more blank lines.
C3_TrimmedAndPdfSingleBlank ==
  \A k \in 1..Len(entries) :
    /\ NoEdgeBlankLine(entries[k].content)
    /\ parser = "pdf" => NoBlankLineRun(entries[k].content)

C3_Witness ==
  /\ parser = "pdf" /\ pc = "done"
  /\ \E k \in 1..Len(entries) : \E j \in 1..Len(SplitLines(entries[k].content)) :
       IsBlank(SplitLines(entries[k].content)[j])

\* C9 as stated: a non-blank line right after a date header that is not a
\* metadata line adds exactly one diagnostic and is the first body line; the
\* entry is returned with weekday '' and no other metadata.
C9_Step ==
  (InLoop("pdf") /\ expectingMetadata /\ ~IsBlank(PdfLine)
     /\ ~RxMatch(PDF_METADATA_LINE_REGEX, PdfLine).ok)
  => /\ Len(errors') = Len(errors) + 1
     /\ contentLines' = << PdfLine >>
     /\ i' = i + 1 /\ pc' = "loop"

C9_Kept ==
  (parser = "pdf" /\ pc = "done") =>
    \A d \in 1..Len(errors) : \E k \in 1..Len(entries) :
      /\ entries[k].date = errors[d].date
      /\ entries[k].weekday = <<>>
      /\ entries[k].time = Undefined /\ entries[k].weather = Undefined
      /\ entries[k].temperature = Undefined /\ entries[k].location = Undefined
      /\ IsPrefix(Trim(errors[d].line), entries[k].content)

C9_MissingMetadata == [][C9_Step]_vars /\ []C9_Kept

\* C9 amended: the same, for a line that is not itself a date header.
C9_StepNotHeader ==
  (InLoop("pdf") /\ expectingMetadata /\ ~IsBlank(PdfLine)
     /\ ~PdfDateMatch(PdfLine).ok
     /\ ~RxMatch(PDF_METADATA_LINE_REGEX, PdfLine).ok)
  => /\ errors' = Append(errors, Diagnostic(currentEntry.date, PdfLine))
     /\ contentLines' = << PdfLine >>
     /\ i' = i + 1 /\ pc' = "loop"

C9_MissingMetadataNotHeader == [][C9_StepNotHeader]_vars /\ []C9_Kept

C9_Witness ==
  /\ parser = "pdf" /\ pc = "done" /\ Len(errors) = 1 /\ Len(entries) >= 1
  /\ entries[1].weekday = <<>>

\* C10: a flush never pushes an entry, nor records a line range, when the
\* accumulated body lines are all blank (or there are none); every entry of
\* either parser has non-empty content.
C10_Step ==
  AllBlank(contentLines) => (entries' = entries /\ entryLineRanges' = entryLineRanges)

C10_NonEmptyContent ==
  \A k \in 1..Len(entries) : entries[k].content # <<>>

C10_EmptyEntriesDropped ==
  [][C10_Step]_vars /\ []C10_NonEmptyContent

C10_Witness ==
  pc = "done" /\ dateHeaderCount = 2 /\ Len(entries) = 1 /\ Len(entryLineRanges) = 1

\* the 0-based line k of the input is classified as a date header
IsHeaderLine(k) == PdfDateMatch(cleanRepeatedChars(lines[k + 1])).ok

\* C11: every line range of parsePdfDiary is 0-based and inclusive: startLine
\* is the index of the date header that opened the entry of the same rank,
\* endLine is the index of the line just before the next date header (of a
\* kept or a dropped entry) or the last line index for the final entry; so
\* 0 <= startLine < endLine <= last line index and the ranges are disjoint.
C11_RangesDelimitEntries ==
  parser = "pdf" =>
    \A n \in 1..Len(entryLineRanges) :
      LET s == entryLineRanges[n].startLine
          e == entryLineRanges[n].endLine
      IN /\ 0 <= s /\ s < e /\ e <= Len(lines) - 1
         /\ IsHeaderLine(s)
         /\ entries[n].date = PdfDateMatch(cleanRepeatedChars(lines[s + 1])).date
         /\ \A k \in (s + 1)..e : ~IsHeaderLine(k)
         /\ e = Len(lines) - 1 \/ IsHeaderLine(e + 1)
         /\ \A m \in 1..(n - 1) : entryLineRanges[m].endLine < s

C11_Witness ==
  /\ parser = "pdf" /\ pc = "done" /\ Len(entryLineRanges) = 1
  /\ entryLineRanges[1].startLine > 0
  /\ entryLineRanges[1].endLine < Len(lines) - 1

\* an optionally signed integer followed by exactly the degree sign and C
IsCanonicalTemperature(t) ==
  LET body == IF t # <<>> /\ Head(t) = "-" THEN Tail(t) ELSE t
      n    == Len(body)
  IN /\ n >= 3
     /\ body[n - 1] = "g" /\ body[n] = "C"
     /\ \A k \in 1..(n - 2) : body[k] \in Digits

\* C12: the temperature of every returned entry of either parser, when
\* present, is an optionally signed integer followed by exactly degree-C,
\* for every temperature token the metadata-line and date-line patterns accept.
C12_TemperatureCanonical ==
  \A k \in 1..Len(entries) :
    entries[k].temperature # Undefined => IsCanonicalTemperature(entries[k].temperature)

(***************************************************************************)
(* Properties of mergeContentLinesToParagraphs.                            *)
(***************************************************************************)
StripBreaks(text) == SelectSeq(text, LAMBDA c : c # NL)

RECURSIVE ConcatNonBlank(_)
ConcatNonBlank(ls) ==
  IF ls = <<>> THEN <<>>
  ELSE (IF IsBlank(Head(ls)) THEN <<>> ELSE Head(ls)) \o ConcatNonBlank(Tail(ls))

RECURSIVE ConcatTrimmed(_)
ConcatTrimmed(ls) ==
  IF ls = <<>> THEN <<>> ELSE Trim(Head(ls)) \o ConcatTrimmed(Tail(ls))

\* C4 as stated: the output without its line and paragraph breaks is the
\* concatenation of every character of the non-blank input lines.
C4_EveryCharacterKept ==
  mpc = "done" => StripBreaks(mResult) = ConcatNonBlank(mLines)

\* C4 amended: the output without its line and paragraph breaks is the
\* concatenation of the non-blank input lines, each stripped of its leading
\* and trailing white space.
C4_EveryTrimmedCharacterKept ==
  mpc = "done" => StripBreaks(mResult) = ConcatTrimmed(mLines)

C4_Witness ==
  /\ mpc = "done" /\ Len(mLines) >= 3
  /\ \E k \in 1..Len(mLines) : mLines[k] = PaddedLine
  /\ \E k \in 1..Len(mResult) : mResult[k] = NL

\* the normal lines the next-line statements are tried with
ProbeLines == { OpenLine, ClosedLine }

\* C7: a normal line after an accumulated line of the same paragraph that is
\* not an info line and has no sentence-terminal end extends the text by
\* exactly its trimmed text; after an accumulated line with a
\* sentence-terminal end it extends the text by one newline and its text.
C7_Step ==
  MergeNormalStep =>
    LET prev == LastLineOf(paragraphs)
        t    == Trim(MergeLine)
    IN prev # Null =>
         /\ (~isInfoLine(prev) /\ ~SENTENCE_END_REGEX(prev)) =>
              MergeJoin(paragraphs') = MergeJoin(paragraphs) \o t
         /\ SENTENCE_END_REGEX(prev) =>
              MergeJoin(paragraphs') = MergeJoin(paragraphs) \o <<NL>> \o t

C7_HardWrapRejoin == [][C7_Step]_vars

C7_Witness ==
  /\ mpc = "done" /\ mLines = << OpenLine, ClosedLine, OpenLine >>
  /\ mResult = OpenLine \o ClosedLine \o <<NL>> \o OpenLine

\* C8 as stated: a blank line makes a paragraph break (one blank line before
\* the next normal line) exactly when the line accumulated before it ends in
\* sentence-terminal punctuation; otherwise the next normal line is joined
\* onto the line before the blank.
C8_StepAsStated ==
  MergeBlankStep =>
    LET prev == LastLineOf(paragraphs)
    IN \A x \in ProbeLines :
         IF prev # Null /\ SENTENCE_END_REGEX(prev)
         THEN MergeJoin(MergeNormal(paragraphs', x)) = MergeJoin(paragraphs) \o <<NL, NL>> \o x
         ELSE prev # Null =>
                MergeJoin(MergeNormal(paragraphs', x)) = MergeJoin(paragraphs) \o x

C8_BreakIffSentenceEnd == [][C8_StepAsStated]_vars

\* C8 amended: a blank line makes a paragraph break (one blank line before
\* the next normal line) exactly when the last line of the current paragraph
\* exists, is not an info line and ends in sentence-terminal punctuation;
\* otherwise the blank line changes nothing, and the next normal line is
\* joined onto the line before the blank when that line is not an info line.
C8_StepAmended ==
  MergeBlankStep =>
    LET prev == LastLineOf(paragraphs)
    IN \A x \in ProbeLines :
         IF prev # Null /\ ~isInfoLine(prev) /\ SENTENCE_END_REGEX(prev)
         THEN MergeJoin(MergeNormal(paragraphs', x)) = MergeJoin(paragraphs) \o <<NL, NL>> \o x
         ELSE /\ paragraphs' = paragraphs
              /\ (prev # Null /\ ~isInfoLine(prev)) =>
                   MergeJoin(MergeNormal(paragraphs', x)) = MergeJoin(paragraphs) \o x

C8_BreakIffPlainSentenceEnd == [][C8_StepAmended]_vars

C8_Witness ==
  /\ mpc = "done" /\ mLines = << ClosedLine, BlankLine, ClosedLine >>
  /\ mResult = ClosedLine \o <<NL, NL>> \o ClosedLine

(***************************************************************************)
(* Properties of cleanRepeatedChars.                                       *)
(***************************************************************************)
\* C5: cleanRepeatedChars applied to its own result returns that result.
C5_Idempotent ==
  cpc \in {"twice", "done"} => cTwice = cOnce

C5_Witness ==
  cpc = "done" /\ cOnce # cText /\ cTwice = cOnce /\ cOnce = HeaderLine

Left(run, w) == IF Len(run) > w THEN SubSeq(run, 1, w) ELSE run

IsCopies(run, base) == \E k \in 1..Len(run) : run = Rep(base, k)

\* C6: a date token whose digit runs have at least the expected width is
\* repaired to the canonical token with the leftmost 4, 2 and 2 digits of
\* the runs (one copy of a repeated run); when every run is a repetition
\* the repaired line is a date header with the date of the single copies.
C6_RepairsDateToken ==
  \A yr \in YearRuns, mr \in MonthRuns, dr \in DayRuns, mm \in {"M", "m"}, dd \in {"D", "d"} :
    (cText = Token(yr, mm, mr, dd, dr) /\ Len(yr) >= 4 /\ Len(mr) >= 2 /\ Len(dr) >= 2) =>
      /\ cpc # "start" =>
           cOnce = Left(yr, 4) \o <<"Y">> \o Left(mr, 2) \o <<"M">> \o Left(dr, 2) \o <<"D">>
      /\ (cpc = "done" /\ IsCopies(yr, Year) /\ IsCopies(mr, Month) /\ IsCopies(dr, Day8)) =>
           cMatch = [ok |-> TRUE, date |-> DateOf(Year, Month, Day8)]

C6_Witness ==
  /\ cpc = "done"
  /\ cText = Token(Rep(Year, 2), "m", Rep(Month, 3), "d", Rep(Day8, 2))
  /\ cOnce = HeaderLine /\ cMatch.ok

(***************************************************************************)
(* Properties of diaryToMarkdown.                                          *)
(***************************************************************************)
\* the frontmatter keys in their fixed order, each with its rendered value
\* and whether the entry has the field
FrontmatterFields(e) ==
  << [key |-> <<"d", "a", "t", "e">>, has |-> TRUE, text |-> e.date],
     [key |-> <<"w", "e", "e", "k", "d", "a", "y">>, has |-> TRUE, text |-> e.weekday],
     [key |-> <<"t", "i", "m", "e">>, has |-> Truthy(e.time), text |-> e.time],
     [key |-> <<"w", "e", "a", "t", "h", "e", "r">>, has |-> Truthy(e.weather), text |-> e.weather],
     [key |-> <<"t", "e", "m", "p", "e", "r", "a", "t", "u", "r", "e">>,
      has |-> Truthy(e.temperature), text |-> e.temperature],
     [key |-> <<"l", "o", "c", "a", "t", "i", "o", "n">>, has |-> Truthy(e.location),
      text |-> <<"\"">> \o e.location \o <<"\"">>],
     [key |-> <<"t", "a", "g", "s">>, has |-> NonEmptyList(e.tags),
      text |-> <<"[">> \o JoinWith(e.tags, <<",", " ">>) \o <<"]">>],
     [key |-> <<"c", "a", "t", "e", "g", "o", "r", "y">>, has |-> Truthy(e.category),
      text |-> e.category] >>

RECURSIVE KeyLines(_)
KeyLines(fields) ==
  IF fields = <<>> THEN <<>>
  ELSE (IF Head(fields).has
        THEN Head(fields).key \o <<":", " ">> \o Head(fields).text \o <<NL>>
        ELSE <<>>)
       \o KeyLines(Tail(fields))

\* weekday, then the title fields the entry has, joined by the separator
RECURSIVE TitleOf(_)
TitleOf(parts) ==
  IF parts = <<>> THEN <<>>
  ELSE (IF Truthy(Head(parts)) THEN TitleSep \o Head(parts) ELSE <<>>) \o TitleOf(Tail(parts))

RECURSIVE EmbedLines(_)
EmbedLines(atts) ==
  IF atts = <<>> THEN <<>> ELSE <<NL>> \o Embed(Head(atts)) \o EmbedLines(Tail(atts))

ExpectedMarkdown(e, addTitle) ==
  Dashes \o <<NL>> \o KeyLines(FrontmatterFields(e)) \o Dashes \o <<NL, NL>>
  \o (IF addTitle
      THEN <<"#", " ">> \o e.weekday
           \o TitleOf(<< e.time, e.weather, e.temperature, e.location >>) \o <<NL, NL>>
      ELSE <<>>)
  \o e.content
  \o (IF NonEmptyList(e.attachments)
      THEN <<NL, NL>> \o AttachmentHeading \o EmbedLines(e.attachments)
      ELSE <<>>)

\* C20: diaryToMarkdown renders a frontmatter block with date and weekday
\* always and time, weather, temperature, quoted location, tags and category
\* exactly when the entry has them, in that order, then a blank line, then
\* (only when addTitle) the '# ' title of weekday and the present fields
\* joined by the separator and a blank line, then the content, then the
\* attachments section exactly when the entry has attachments.
C20_MarkdownLayout ==
  mdpc = "done" => mdResult = ExpectedMarkdown(mdEntry, mdAddTitle)

C20_Witness ==
  /\ mdpc = "done" /\ mdAddTitle
  /\ mdEntry.time = Undefined /\ Truthy(mdEntry.weather) /\ Truthy(mdEntry.location)
  /\ Len(mdEntry.tags) = 2 /\ mdEntry.attachments = << <<"x">> >>
  /\ Includes(mdResult, AttachmentHeading)

(***************************************************************************)
(* Claims about the import into the vault.                                 *)
(***************************************************************************)
\* the notes of the vault: the files the entry loop writes
NotePaths == { p \in DOMAIN vault : SubSeq(p, Len(p) - 2, Len(p)) = <<".", "m", "d">> }

ImportedDates == { imported[k].date : k \in 1..Len(imported) }

ImportedOn(date) == SelectSeq(imported, LAMBDA e : e.date = date)

\* the loop is about to handle an entry whose note exists
MeetsExistingNote ==
  /\ impc = "entries" /\ imIdx < Len(imEntries)
  /\ filePath(imEntries[imIdx + 1]) \in DOMAIN vault

\* C13: when importEntries meets an entry whose note file exists already, the
\* file is left unmodified and the entry is counted as skipped.
C13_ExistingSkipped ==
  [][ (MeetsExistingNote /\ imIdx' = imIdx + 1)
      => /\ vault' = vault
         /\ imResult'.skipped = imResult.skipped + 1 ]_vars

\* text holds the trimmed contents of es from the k-th on in this order, from
\* position from on, each one right after the separator
RECURSIVE HoldsFrom(_, _, _, _)
HoldsFrom(text, es, k, from) ==
  IF k > Len(es) THEN TRUE
  ELSE LET pat == separator \o Trim(es[k].content)
           at  == IndexOfFrom(text, pat, from)
       IN at > 0 /\ HoldsFrom(text, es, k + 1, at + Len(pat))

\* text holds the contents of es in import order, separated by the separator
NoteHolds(text, es) ==
  LET first == Trim(es[1].content)
      at    == IndexOfFrom(text, first, 1)
  IN at > 0 /\ HoldsFrom(text, es, 2, at + Len(first))

C14_OneNotePerDate ==
  /\ Cardinality(NotePaths) = Cardinality(ImportedDates)
  /\ \A date \in ImportedDates :
       LET es   == ImportedOn(date)
           path == filePath(es[1])
       IN path \in NotePaths /\ NoteHolds(vault[path], es)

C14_BodyKept ==
  \A p \in NotePaths :
    p \in DOMAIN vault' /\ Includes(vault'[p], parseMarkdownFile(vault[p]).body)

NonDecreasing(ns) == \A k \in 1..(Len(ns) - 1) : ns[k] <= ns[k + 1]

\* every line of the text that parsePdfDiary splits has one page in the table
C16_TableCoversLines ==
  hpc \in {"parsing", "ready", "importing", "closed"}
  => /\ Len(lineToPage) = Len(SplitLines(pdfText))
     /\ \A k \in 1..Len(lineToPage) : lineToPage[k] \in 1..Len(pdfDocument)
     /\ NonDecreasing(lineToPage)

\* the page range of each entry is the pages of its first and last line
C16_RangesFromTable ==
  hpc \in {"ready", "importing", "closed"}
  => /\ Len(entryPageRanges) = Len(entryLineRanges)
     /\ Len(entryPageRanges) = Len(thisEntries)
     /\ \A k \in 1..Len(entryPageRanges) :
          LET r == entryPageRanges[k]
              l == entryLineRanges[k]
          IN /\ l.startLine + 1 \in DOMAIN lineToPage
             /\ l.endLine + 1 \in DOMAIN lineToPage
             /\ r.startPage = lineToPage[l.startLine + 1]
             /\ r.endPage = lineToPage[l.endLine + 1]
             /\ 1 <= r.startPage /\ r.startPage <= r.endPage
             /\ r.endPage <= Len(pdfDocument)
     /\ NonDecreasing([k \in 1..Len(entryPageRanges) |-> entryPageRanges[k].startPage])

\* C16: for the full text built in handleFile the line -> page table has one
\* page for every line of the parsed text and is non-decreasing, and each
\* entry's page range is (page of its startLine, page of its endLine) with
\* 1 <= startPage <= endPage <= number of pages, the start pages non-decreasing.
C16_PageRanges == C16_TableCoversLines /\ C16_RangesFromTable

\* two entries, the first of which runs over a page break
C16_Witness ==
  /\ hpc = "ready" /\ Len(entryPageRanges) = 2
  /\ entryPageRanges[1].startPage < entryPageRanges[1].endPage
  /\ entryPageRanges[2].startPage = entryPageRanges[1].endPage

\* what the tracker was handed does not fit: the range list has not the length
\* of the entries, or an index of a range has no page in the table
RangesMismatch == Len(entryLineRanges) # Len(entries)

IndexWithoutPage ==
  \E k \in 1..Len(entryLineRanges) :
    \/ entryLineRanges[k].startLine + 1 \notin DOMAIN lineToPage
    \/ entryLineRanges[k].endLine + 1 \notin DOMAIN lineToPage

MismatchRefused ==
  (hpc \in {"ready", "importing", "closed"} /\ RangesMismatch)
  => (entryPageRanges = <<>> /\ vault = EmptyMap /\ hpc = "ready")

\* the entry of rank n consumed the line after its date header as metadata
MetadataConsumed(n) ==
  LET s == entryLineRanges[n].startLine
  IN /\ s + 1 <= entryLineRanges[n].endLine
     /\ RxMatch(PDF_METADATA_LINE_REGEX, cleanRepeatedChars(lines[s + 2])).ok

\* the lines of the range of the entry of rank n that are neither its date
\* header nor its metadata line, as the loop sees them
BodyLinesOf(n) ==
  LET s == entryLineRanges[n].startLine
      e == entryLineRanges[n].endLine
      m == IF MetadataConsumed(n) THEN 1 ELSE 0
  IN SubSeq([k \in 1..(e + 1) |-> cleanRepeatedChars(lines[k])], s + m + 2, e + 1)

\* C17: every line of parsePdfDiary has one role: the content of an entry is
\* made of the lines of its range other than its date header and the line
\* consumed as its metadata, and of nothing else (the lines before the first
\* header are in no range); the metadata fields come from the metadata line.
C17_OneRolePerLine ==
  parser = "pdf" =>
    /\ Len(entryLineRanges) = Len(entries)
    /\ \A n \in 1..Len(entries) :
         /\ entries[n].content = PdfContent(BodyLinesOf(n))
         /\ (entries[n].weekday # <<>>) <=> MetadataConsumed(n)

\* lines before the first header, a metadata line, body: one entry comes back
C17_Witness ==
  /\ parser = "pdf" /\ pc = "done" /\ Len(entries) = 1
  /\ entryLineRanges[1].startLine > 0
  /\ MetadataConsumed(1)
  /\ Len(BodyLinesOf(1)) >= 1

\* the line of the loop step about to be taken, and whether a date pattern
\* of the parser matches it
LoopLine == IF parser = "pdf" THEN PdfLine ELSE lines[i + 1]

DateMatches ==
  IF parser = "pdf" THEN PdfDateMatch(PdfLine).ok ELSE RxMatch(DATE_LINE_REGEX, lines[i + 1]).ok

\* every loop step examines the next line and no other
EachLineOnce ==
  (pc = "loop" /\ i < Len(lines)) => (i' = i + 1 /\ lines' = lines /\ pc' = "loop")

\* a step on a line no date pattern matches opens and closes no entry
NoBoundary ==
  (pc = "loop" /\ i < Len(lines) /\ ~DateMatches)
  => /\ entries' = entries /\ entryLineRanges' = entryLineRanges
     /\ dateHeaderCount' = dateHeaderCount /\ currentStartLine' = currentStartLine
     /\ (currentEntry = NoEntry) <=> (currentEntry' = NoEntry)
     /\ currentEntry # NoEntry => currentEntry'.date = currentEntry.date

\* ... and the line is a body line of the current entry
BodyOfCurrent ==
  (pc = "loop" /\ i < Len(lines) /\ ~DateMatches /\ currentEntry # NoEntry)
  => contentLines' = Append(contentLines, LoopLine)

\* ... unless parsePdfDiary consumes it as the metadata line of the entry
BodyOrMetadata ==
  (pc = "loop" /\ i < Len(lines) /\ ~DateMatches)
  => IF currentEntry = NoEntry THEN contentLines' = contentLines
     ELSE IF parser = "pdf" /\ expectingMetadata
             /\ RxMatch(PDF_METADATA_LINE_REGEX, PdfLine).ok
     THEN contentLines' = contentLines /\ metadataCount' = metadataCount + 1
     ELSE contentLines' = Append(contentLines, LoopLine) /\ currentEntry' = currentEntry

\* in every state before the return a step of the call is due: the guards
\* of the steps leave no line without a step
StepDue ==
  \/ pc = "start" \/ pc = "done"
  \/ pc = "loop" /\ i = Len(lines)
  \/ InLoop("txt")
  \/ InLoop("pdf") /\ PdfDateMatch(PdfLine).ok
  \/ InLoop("pdf") /\ ~PdfDateMatch(PdfLine).ok /\ expectingMetadata /\ currentEntry # NoEntry
  \/ InLoop("pdf") /\ ~PdfDateMatch(PdfLine).ok /\ ~(expectingMetadata /\ currentEntry # NoEntry)

\* the call returns, every line examined
Returned == pc = "done" /\ i = Len(lines) /\ Len(entries) <= dateHeaderCount + Len(lines)

\* C18 as stated: both parsers end after one step per line on every input; a
\* line that no date pattern matches creates no entry boundary and is treated
\* as body of the current entry.
C18_TerminatesBodyFallThrough ==
  /\ []StepDue /\ <>Returned
  /\ [][EachLineOnce /\ NoBoundary /\ BodyOfCurrent]_vars

\* C18: both parsers end after one step per line on every input; a line that
\* no date pattern matches creates no entry boundary; it is added to the body
\* of the current entry, except that parsePdfDiary consumes it as the entry's
\* metadata when it directly follows the date header and matches the metadata
\* pattern; with no current entry it is dropped.
C18_TerminatesFallThrough ==
  /\ []StepDue /\ <>Returned
  /\ [][EachLineOnce /\ NoBoundary /\ BodyOrMetadata]_vars

\* a run over a header and a date token no pattern matches has returned one
\* entry whose content is that line
C18_Witness ==
  /\ pc = "done" /\ parser = "pdf" /\ Len(lines) = 2
  /\ lines[2] = BadDateLine /\ ~PdfDateMatch(cleanRepeatedChars(BadDateLine)).ok
  /\ Len(entries) = 1 /\ entries[1].content = BadDateLine /\ dateHeaderCount = 1

\* an earlier call with the parser and the text of the call that runs
SameCall(k) == returned[k].parser = parser /\ returned[k].content = content

AttachmentsOf(entry) ==
  IF ListField(entry, "attachments") = NoList THEN <<>> ELSE entry.attachments

\* importEntriesWithImages is past its image loop
ImagesSaved == (hpc = "importing" /\ impc \in {"entries", "ready"}) \/ hpc = "closed"

\* C21: in the page-range PDF import every attachment path that
\* associateImagesWithEntries adds to an entry names an image file that
\* importEntriesWithImages has saved under exactly that name, wherever the
\* images and the entries lie on the pages.
C21_AttachmentsSaved ==
  ImagesSaved =>
    \A k \in 1..Len(imEntries) :
      \A a \in 1..Len(AttachmentsOf(imEntries[k])) :
        AttachmentsOf(imEntries[k])[a] \in DOMAIN vault

\* the index (from 0) of the first line of page q in the full text
RECURSIVE PageStart(_)
PageStart(q) ==
  IF q <= 1 THEN 0 ELSE PageStart(q - 1) + Len(SplitLines(pageTexts[q - 1])) + 1

\* the page whose text holds the line of index l; the line inserted after a
\* page is counted with the page it follows
RECURSIVE SourcePage(_, _)
SourcePage(l, q) ==
  IF q >= Len(pageTexts) \/ l < PageStart(q + 1) THEN q ELSE SourcePage(l, q + 1)

\* the index of the last line of lines[from + 1 .. to + 1] that is not blank
LastNonBlank(from, to) ==
  LET hits == { l \in from..to : Trim(lines[l + 1]) # <<>> }
  IN CHOOSE l \in hits : \A m \in hits : m <= l

\* the entry of rank k ends on page p and the next date header is the first
\* line of page p + 1
EndsBeforePage(k, p) ==
  LET r == entryLineRanges[k]
  IN /\ p + 1 <= Len(pageTexts)
     /\ r.endLine + 1 = PageStart(p + 1)
     /\ SourcePage(LastNonBlank(r.startLine, r.endLine), 1) = p

\* the part "-p<page>-" of the name of an image of that page
PageMark(p) == <<"-", "p">> \o Num(p) \o <<"-">>

\* C22: the blank line inserted between page p and page p + 1 does not extend
\* an entry onto page p + 1: an entry whose last non-blank line is on page p
\* and whose successor's date header is the first line of page p + 1 has
\* endPage = p, and no image of page p + 1 is attributed to it.
C22_BlankLineKeepsPage ==
  hpc \in {"ready", "importing", "closed"} =>
    \A k \in 1..Len(entryPageRanges) : \A p \in 1..Len(pageTexts) :
      EndsBeforePage(k, p) =>
        /\ entryPageRanges[k].endPage = p
        /\ \A a \in 1..Len(AttachmentsOf(thisEntries[k])) :
             ~Includes(AttachmentsOf(thisEntries[k])[a], PageMark(p + 1))

(***************************************************************************)
(* Claims about the metadata line and the body lines of parsePdfDiary.     *)
(***************************************************************************)
\* a step of the loop of parsePdfDiary on a line that is no date header
PdfPlainStep == InLoop("pdf") /\ ~PdfDateMatch(PdfLine).ok /\ i' = i + 1

MetadataShaped(line) == RxMatch(PDF_METADATA_LINE_REGEX, line).ok

\* metadata is expected on the line after the date header and on no other
C23_ExpectedOnNextLine ==
  (parser = "pdf" /\ expectingMetadata)
  => (currentEntry # NoEntry /\ i = currentStartLine + 1)

\* the fields are filled by the expected line only; a blank line ends the
\* expectation without a diagnostic; a line that is not expected is body
C23_Step ==
  PdfPlainStep =>
    /\ expectingMetadata' = FALSE
    /\ (currentEntry' # currentEntry \/ metadataCount' # metadataCount)
       => /\ expectingMetadata /\ MetadataShaped(PdfLine)
          /\ metadataCount' = metadataCount + 1
          /\ contentLines' = contentLines
    /\ (expectingMetadata /\ Trim(PdfLine) = <<>>)
       => (errors' = errors /\ currentEntry' = currentEntry)
    /\ (~expectingMetadata /\ currentEntry # NoEntry /\ MetadataShaped(PdfLine))
       => /\ contentLines' = Append(contentLines, PdfLine)
          /\ currentEntry' = currentEntry /\ errors' = errors

\* an entry whose header is not followed by a metadata line is returned
\* without the metadata fields
C23_NoLateMetadata ==
  parser = "pdf" =>
    \A n \in 1..Len(entries) :
      ~MetadataConsumed(n) =>
        /\ entries[n].weekday = <<>> /\ entries[n].time = Undefined
        /\ entries[n].weather = Undefined /\ entries[n].temperature = Undefined
        /\ entries[n].location = Undefined

\* C23: in parsePdfDiary the metadata expectation lasts exactly one line: the
\* metadata fields are filled only from the line right after a date header,
\* at most once per entry; a blank line there drops the expectation without
\* a diagnostic, and a metadata-shaped line that comes later is accumulated
\* as body while the weekday of the entry stays ''.
C23_MetadataOneLine ==
  /\ [](C23_ExpectedOnNextLine /\ C23_NoLateMetadata)
  /\ [][C23_Step]_vars

\* header, blank line, metadata line: the entry comes back without weekday,
\* the metadata line is its content, and there is no diagnostic
C23_Witness ==
  /\ parser = "pdf" /\ pc = "done"
  /\ lines = << HeaderLine, BlankLine, MetadataLine >>
  /\ Len(entries) = 1 /\ entries[1].weekday = <<>>
  /\ entries[1].content = MetadataLine /\ errors = <<>> /\ metadataCount = 0

\* the line of index l (from 0) as the loop sees it, and what it is
RepairedLine(l) == cleanRepeatedChars(lines[l + 1])

IsHeaderAt(l) == PdfDateMatch(RepairedLine(l)).ok

ConsumedAt(l) ==
  l >= 1 /\ IsHeaderAt(l - 1) /\ ~IsHeaderAt(l) /\ MetadataShaped(RepairedLine(l))

HeadersBefore(l) == { h \in 0..(l - 1) : IsHeaderAt(h) }

\* a non-blank line after the first date header that is neither a date
\* header nor a consumed metadata line
BodyLineAt(l) ==
  /\ Trim(lines[l + 1]) # <<>> /\ ~IsHeaderAt(l) /\ ~ConsumedAt(l)
  /\ HeadersBefore(l) # {}

\* the returned entries whose line range holds the line
EntriesHolding(l) ==
  { k \in 1..Len(entryLineRanges) :
      entryLineRanges[k].startLine <= l /\ l <= entryLineRanges[k].endLine }

\* the line is in the range of one returned entry, the one opened by the
\* nearest date header before it, and the content of that entry holds text
OneEntryHolds(l, text) ==
  /\ Cardinality(EntriesHolding(l)) = 1
  /\ \A k \in EntriesHolding(l) :
       /\ \A h \in HeadersBefore(l) : h <= entryLineRanges[k].startLine
       /\ entryLineRanges[k].startLine \in HeadersBefore(l)
       /\ Includes(entries[k].content, text)

\* a line before the first date header is in no range
NoneBeforeFirstHeader ==
  \A l \in 0..(Len(lines) - 1) : HeadersBefore(l + 1) = {} => EntriesHolding(l) = {}

\* the step on a line before the first date header adds nothing
DroppedBeforeFirstHeader ==
  (PdfPlainStep /\ dateHeaderCount = 0)
  => /\ contentLines' = contentLines /\ errors' = errors /\ entries' = entries
     /\ currentEntry' = NoEntry

\* C24 as stated: every body line gives its own trimmed text to the content
\* of the one returned entry opened by the nearest date header before it;
\* the lines before the first date header give nothing and no diagnostic.
C24_BodyLineOwnText ==
  /\ [](pc = "done" =>
          /\ NoneBeforeFirstHeader
          /\ \A l \in 0..(Len(lines) - 1) :
               BodyLineAt(l) => OneEntryHolds(l, Trim(lines[l + 1])))
  /\ [][DroppedBeforeFirstHeader]_vars

\* C24: every non-blank line after the first date header that is neither a
\* date header nor a consumed metadata line gives the trimmed text of the
\* line as cleanRepeatedChars repaired it to the content of exactly one
\* returned entry, the one opened by the nearest date header before it; the
\* lines before the first date header give nothing and no diagnostic.
C24_BodyLineRepairedText ==
  /\ [](pc = "done" =>
          /\ NoneBeforeFirstHeader
          /\ \A l \in 0..(Len(lines) - 1) :
               BodyLineAt(l) => OneEntryHolds(l, Trim(RepairedLine(l))))
  /\ [][DroppedBeforeFirstHeader]_vars

\* a padded line before the header, then the header and a body line that
\* the repair rewrites
C24_Witness ==
  /\ pc = "done" /\ lines = << PaddedLine, HeaderLine, KangxiDateLine >>
  /\ BodyLineAt(2) /\ RepairedLine(2) # lines[3]
  /\ Len(entries) = 1 /\ entries[1].content = BadDateLine
  /\ entryLineRanges[1].startLine = 1

(***************************************************************************)
(* Claims about the diagnostics.                                           *)
(***************************************************************************)
\* the returned entries whose date header is followed by a line that is
\* neither blank nor a metadata line, in the order of the entries
Diagnosed ==
  SelectSeq([k \in 1..Len(entries) |-> k],
            LAMBDA k : BodyLineAt(entryLineRanges[k].startLine + 1))

\* the diagnostic of the entry of rank k: its date and the line after its header
DiagnosticOf(k) ==
  Diagnostic(entries[k].date, RepairedLine(entryLineRanges[k].startLine + 1))

\* a step records at most one diagnostic, and only on the line after a header
OnePerHeader ==
  errors' # errors
  => /\ Len(errors') = Len(errors) + 1
     /\ expectingMetadata /\ i = currentStartLine + 1 /\ i' = i + 1

\* C25: parsePdfDiary records at most one diagnostic per date header, and
\* every date header that produced a diagnostic yields an entry that is
\* retained in entries, so that errors.length <= entries.length;
\* parseTxtDiary returns an empty errors list.
C25_DiagnosticsHaveEntries ==
  /\ [](parser = "txt" => errors = <<>>)
  /\ []((parser = "pdf" /\ pc = "done") =>
          /\ Len(errors) <= Len(entries)
          /\ errors = [e \in 1..Len(Diagnosed) |-> DiagnosticOf(Diagnosed[e])])
  /\ [][OnePerHeader]_vars

\* two headers, each followed by a body line: two diagnostics, two entries
C25_Witness ==
  /\ parser = "pdf" /\ pc = "done"
  /\ lines = << HeaderLine, OpenLine, HeaderLine, ClosedLine >>
  /\ Len(errors) = 2 /\ Len(entries) = 2
  /\ errors[2] = Diagnostic(DateOf(Year, Month, Day8), ClosedLine)

(***************************************************************************)
(* Claims about the info lines of a body.                                  *)
(***************************************************************************)
\* the paragraphs of a reflowed text: its parts between blank lines
RECURSIVE ParasFrom(_, _)
ParasFrom(text, from) ==
  LET at == IndexOfFrom(text, <<NL, NL>>, from)
  IN IF at = 0 THEN << SubSeq(text, from, Len(text)) >>
     ELSE << SubSeq(text, from, at - 1) >> \o ParasFrom(text, at + 2)

\* the info lines of the argument, trimmed, in their order
InfoLinesOf(ls) ==
  LET info == SelectSeq(ls, LAMBDA line : isInfoLine(line))
  IN [k \in 1..Len(info) |-> Trim(info[k])]

\* C26: in mergeContentLinesToParagraphs a line that by itself matches the
\* date-header, date-line or metadata-line pattern is emitted as its own
\* one-line paragraph: it closes the paragraph before it, nothing is
\* concatenated onto it, and the next body line starts a new paragraph.
C26_InfoLineOwnParagraph ==
  mpc = "done" =>
    SelectSeq(ParasFrom(mResult, 1), LAMBDA para : isInfoLine(para)) = InfoLinesOf(mLines)

\* an open body line, an info line, a body line: three paragraphs
C26_Witness ==
  /\ mpc = "done" /\ mLines = << OpenLine, PaddedHeader, ClosedLine >>
  /\ mResult = OpenLine \o <<NL, NL>> \o HeaderLine10 \o <<NL, NL>> \o ClosedLine

(***************************************************************************)
(* Claims about the body of the plain-text dialect.                        *)
(***************************************************************************)
\* the indices (from 1) of the date lines of the text, in their order
TxtDateLines ==
  SelectSeq([k \in 1..Len(lines) |-> k], LAMBDA k : RxMatch(DATE_LINE_REGEX, lines[k]).ok)

\* the lines between the n-th date line and the next one (or the end), joined
\* by newlines as they are, the white space at both ends of the whole removed
TxtBodyOf(dateLines, n) ==
  LET from == dateLines[n] + 1
      to   == IF n < Len(dateLines) THEN dateLines[n + 1] - 1 ELSE Len(lines)
  IN Trim(JoinWith(SubSeq(lines, from, to), <<NL>>))

\* the date lines whose body is not empty
TxtKept(dateLines) ==
  SelectSeq([n \in 1..Len(dateLines) |-> n], LAMBDA n : TxtBodyOf(dateLines, n) # <<>>)

\* the date a date line begins with, as the entry has it
TxtDateOf(line) == DateOf(SubSeq(line, 1, 4), SubSeq(line, 6, 7), SubSeq(line, 9, 10))

\* C27: in the plain-text dialect the body is not reflowed: the content of
\* each entry is the lines between its date line and the next date line (or
\* the end of the input), joined by newlines as given, with only the white
\* space at the two ends of the whole body removed.
C27_TxtBodyVerbatim ==
  (parser = "txt" /\ pc = "done") =>
    LET dateLines == TxtDateLines
        kept      == TxtKept(dateLines)
    IN /\ Len(entries) = Len(kept)
       /\ \A k \in 1..Len(entries) :
            /\ entries[k].content = TxtBodyOf(dateLines, kept[k])
            /\ entries[k].date = TxtDateOf(lines[dateLines[kept[k]]])

\* an unfinished line, a blank line and a padded line stay three lines
C27_Witness ==
  /\ parser = "txt" /\ pc = "done"
  /\ lines = << BlankLine, TxtDateLine, OpenLine, BlankLine, PaddedLine >>
  /\ Len(entries) = 1
  /\ entries[1].content = OpenLine \o <<NL, NL>> \o PaddedLine

(***************************************************************************)
(* Claims about the loose date pattern.                                    *)
(***************************************************************************)
\* the strict date-header patterns fail on the line as it stands in the text
StrictFails(raw) ==
  /\ ~RxMatch(PDF_DATE_HEADER_REGEX, raw).ok /\ ~RxMatch(PDF_DATE_LINE_REGEX, raw).ok
  /\ ~RxMatch(PDF_DATE_HEADER_REGEX, Trim(raw)).ok /\ ~RxMatch(PDF_DATE_LINE_REGEX, Trim(raw)).ok

\* the first well-formed date token of the line
TokenOf(raw) == RxSearch(looseDatePattern, raw)

TokenDate(raw) ==
  DateOf(Cap(TokenOf(raw), raw, 1), Cap(TokenOf(raw), raw, 2), Cap(TokenOf(raw), raw, 3))

\* the number of digits that stand directly before position pos
DigitsBefore(raw, pos) ==
  LET runs == { n \in 0..(pos - 1) : \A q \in (pos - n)..(pos - 1) : raw[q] \in Digits }
  IN CHOOSE n \in runs : \A m \in runs : m <= n

\* the date with the leftmost four digits of the digit run that ends at the
\* year marker of the token
RunDate(raw) ==
  LET from == TokenOf(raw).start - DigitsBefore(raw, TokenOf(raw).start)
  IN DateOf(SubSeq(raw, from, from + 3), Cap(TokenOf(raw), raw, 2), Cap(TokenOf(raw), raw, 3))

\* the loop stands on a line the strict patterns fail on and that holds a token
LooseCase == InLoop("pdf") /\ StrictFails(lines[i + 1]) /\ TokenOf(lines[i + 1]).ok

\* the step on the line closes the current entry and opens one of that date
OpensEntry(date) ==
  /\ dateHeaderCount' = dateHeaderCount + 1
  /\ (currentEntry # NoEntry /\ PdfContent(contentLines) # <<>>)
     => /\ entries' = Append(entries, [currentEntry EXCEPT !.content = PdfContent(contentLines)])
        /\ entryLineRanges' = Append(entryLineRanges,
                                     [startLine |-> currentStartLine, endLine |-> i - 1])
  /\ currentEntry'.date = date /\ currentEntry'.content = <<>>
  /\ currentStartLine' = i /\ contentLines' = <<>> /\ i' = i + 1

\* the content of every returned entry is made of the lines after its header
ContentAfterHeader ==
  pc = "done" =>
    \A n \in 1..Len(entries) :
      /\ IsHeaderAt(entryLineRanges[n].startLine)
      /\ entries[n].content = PdfContent(BodyLinesOf(n))

\* C28 as stated: a line on which the strict date-header patterns fail but
\* which holds a well-formed date token anywhere is a date header: it flushes
\* the current entry and opens an entry with the date of the token, and the
\* other characters of the line are in no entry's content.
C28_LooseHeaderTokenDate ==
  /\ [][LooseCase => OpensEntry(TokenDate(lines[i + 1]))]_vars
  /\ []ContentAfterHeader

\* C28: such a line is a date header: it flushes the current entry and opens
\* an entry, and the other characters of the line are in no entry's content;
\* the date of the entry has the month and day of the token and, as year,
\* the leftmost four digits of the digit run that ends at the year marker
\* (the year of the token when no digit stands before it).
C28_LooseHeaderRunDate ==
  /\ [][LooseCase => OpensEntry(RunDate(lines[i + 1]))]_vars
  /\ []ContentAfterHeader

\* a token with a letter after it opens the entry of its date; a token with
\* a digit before it closes that entry and opens one of another year
C28_Witness ==
  /\ pc = "done" /\ lines = << TrailingGarbage, ClosedLine, DigitBefore >>
  /\ Len(entries) = 1 /\ entries[1].date = DateOf(Year, Month, Day10)
  /\ entries[1].content = ClosedLine /\ dateHeaderCount = 2
  /\ currentEntry.date = DateOf(<<"5", "2", "0", "2">>, Month, Day8)
(***************************************************************************)
(* Claims about repeated and overlapping use of the modal.                 *)
(***************************************************************************)
\* no path occurs twice in a list of attachments
NoPathTwice(paths) ==
  \A a, b \in 1..Len(paths) : paths[a] = paths[b] => a = b

\* a click on the import button after an import of the same PDF has failed
\* leaves the attachments of every entry as they are
LaterClickKeeps ==
  (failed > 0 /\ CanImport /\ Len(entryPageRanges) = Len(thisEntries))
    => \A k \in 1..Len(thisEntries) :
         AttachmentsOf(thisEntries'[k]) = AttachmentsOf(thisEntries[k])

\* C29: clicking the import button again for the same loaded PDF, after an
\* import attempt has failed and left the modal open, leaves the attachments
\* of every entry as the first click made them: no image path occurs twice
\* in the attachments of an entry.
C29_ClickKeepsAttachments ==
  /\ [](\A k \in 1..Len(thisEntries) : NoPathTwice(AttachmentsOf(thisEntries[k])))
  /\ [][LaterClickKeeps]_vars

\* the page texts, the images and the full text that handleFile makes of a document
TextsOf(doc) == [k \in 1..Len(doc) |-> JoinWith(doc[k].lines, <<NL>>)]

ImagesOf(doc) ==
  [pn \in { k \in 1..Len(doc) : Len(doc[k].images) > 0 } |-> doc[pn].images]

FullTextOf(doc) == JoinWith(PageLines(TextsOf(doc), 0).lines, <<NL>>)

\* the fields of the modal are those of one call of handleFile on the document
DerivesFrom(doc) ==
  /\ pageTexts = TextsOf(doc)
  /\ pageImages = ImagesOf(doc)
  /\ pdfText = FullTextOf(doc)
  /\ content = pdfText /\ thisEntries = entries
  /\ entryPageRanges = trackPositions(entries, entryLineRanges,
                                      PageLines(TextsOf(doc), 0).lineToPage)

\* C30: when handleFile is started for a second PDF while an earlier call
\* still awaits a page, then once both calls have returned the full text,
\* the page texts, the entries, the page ranges and the page images of the
\* modal all derive from one of the two files; texts and images of the two
\* files are not mixed.
C30_OneFileOnly ==
  (hpc = "ready" /\ second.hpc = "ready")
    => \E doc \in {pdfDocument, second.pdfDocument} : DerivesFrom(doc)

(***************************************************************************)
(* Claims about the merge into an existing note and the import loop.       *)
(***************************************************************************)
\* importEntries is about to merge its next entry into the note of its date
MergesNext ==
  /\ imKind = "entries" /\ impc = "entries" /\ imIdx < Len(imEntries)
  /\ filePath(imEntries[imIdx + 1]) \in DOMAIN vault

\* the step of importEntries that merges keeps the note up to the end of its body
MergeAppendsOnly ==
  MergesNext =>
    LET entry == imEntries[imIdx + 1]
        path  == filePath(entry)
    IN IF Trim(entry.content) # <<>>
       THEN IsPrefix(TrimEnd(vault[path]), vault'[path])
       ELSE vault'[path] = vault[path]

\* C31: mergeDiaryContent only appends: when the new entry has content, the
\* text of the existing note up to the end of its body (frontmatter block,
\* spacing and body) is a prefix of the merged note; when the new entry has
\* no content the existing text is returned unchanged.
C31_MergeOnlyAppends == [][MergeAppendsOnly]_vars

\* how often a text occurs in another
Occurrences(str, pat) ==
  Cardinality({ k \in 1..(Len(str) - Len(pat) + 1) : SubSeq(str, k, k + Len(pat) - 1) = pat })

\* the note of an imported entry has each of the entry's embeds and the heading once
EmbedsOnce(entry) ==
  LET atts == AttachmentsOf(entry)
      path == filePath(entry)
  IN atts # <<>> =>
       /\ path \in DOMAIN vault
       /\ Occurrences(vault[path], AttachmentHeading) = 1
       /\ \A k \in 1..Len(atts) : Occurrences(vault[path], Embed(atts[k])) = 1

\* C32: mergeDiaryContentWithAttachments adds no embed that the merged text
\* already has and adds the attachment heading only when it is absent:
\* however often the attachments of an entry are merged into its note, the
\* note has each embed and the heading exactly once.
C32_EmbedsOnce ==
  \A k \in 1..Len(imported) : EmbedsOnce(imported[k])

\* an entry with an attachment has been imported three times: its note was
\* created with the embed and merged twice
C32_Witness ==
  /\ impc = "ready" /\ imKind = "images" /\ Len(imported) = 3
  /\ imported[1] = imported[2] /\ imported[2] = imported[3]
  /\ AttachmentsOf(imported[1]) # <<>>
  /\ Occurrences(vault[filePath(imported[1])], separator) = 2

\* importEntries is in its loop or has returned
InImportEntries == imKind = "entries" /\ impc \in {"entries", "ready"}

\* every entry the loop has passed was counted once, as a success or as an error
CountedOnce ==
  InImportEntries =>
    /\ imResult.success + Len(imResult.errors) = imIdx
    /\ imResult.skipped = 0
    /\ impc = "ready" => imIdx = Len(imEntries)

\* an iteration adds one success or one error string, that of its entry
OneErrorPerFailure ==
  (InImportEntries /\ impc = "entries" /\ imIdx' # imIdx) =>
    /\ imIdx' = imIdx + 1
    /\ \/ /\ imResult'.success = imResult.success + 1
          /\ imResult'.errors = imResult.errors
          /\ imported' = Append(imported, imEntries[imIdx'])
       \/ /\ imResult'.success = imResult.success
          /\ imResult'.errors = Append(imResult.errors, ErrorText(imEntries[imIdx']))

====
